---- MODULE Spec2Model ----
(***************************************************************************)
(* Model of the stateful transducers of auxjad.                            *)
(*                                                                         *)
(* Part 1: auxjad.Fader (src/auxjad/core/Fader.py).                        *)
(* Part 2: auxjad.Hocketer (src/auxjad/core/Hocketer.py).                  *)
(* Part 3: auxjad.PitchRandomiser (src/auxjad/core/PitchRandomiser.py).    *)
(* Part 4: auxjad.WindowLooper (src/auxjad/core/WindowLooper.py).          *)
(* Part 5: auxjad.LoopByNotes (src/auxjad/core/LoopByNotes.py).            *)
(* Part 6: auxjad.LoopWindowByElements                                     *)
(*         (src/auxjad/core/LoopWindowByElements.py).                      *)
(* Part 7: functions of auxjad (mutate, leaves_are_tieable,                *)
(*         repeat_container, reposition_slurs).                            *)
(*                                                                         *)
(* A container is a sequence of leaves.  A leaf is a record                *)
(*   [p |-> pitch, d |-> written duration, t |-> tied to the next leaf]    *)
(* with p = 0 for a rest, p > 0 for a note and p = -1 for a multi-measure  *)
(* rest (which only occurs in rendered windows).  Durations are counted in *)
(* quarter notes; MeasureLen is the length of a measure in that unit.      *)
(* Indicators other than ties (time signatures, dynamics, ...) are not     *)
(* part of a leaf.                                                         *)
(***************************************************************************)
EXTENDS Integers, Sequences, FiniteSets, TLC

\* ------------------------------------------------------------------ bounds
MaxLeaves == 2
MaxSteps == 2
MaxCalls == 4
MaxN == 2
MeasureLen == 2

\* written durations of the leaves of the containers handed to a fader
Durations == {1}
\* written durations of the leaves of the containers handed to the renderer
RenderDurations == {1, 2}
Pitches == {1}

\* ------------------------------------------------------------- containers
Leaf(p, d, t) == [p |-> p, d |-> d, t |-> t]

LeafSet(durs) == [p : {0} \cup Pitches, d : durs, t : BOOLEAN]

\* a tie starts on a note and leads to a following note of the same pitch
WellFormed(s) ==
    \A i \in DOMAIN s :
        s[i].t => /\ s[i].p > 0
                  /\ i < Len(s)
                  /\ s[i + 1].p = s[i].p

ContainersOver(durs) ==
    {s \in UNION {[1..n -> LeafSet(durs)] : n \in 1..MaxLeaves} : WellFormed(s)}

Containers == ContainersOver(Durations)

\* what is passed to a setter by a caller who passes something else
NotAContainer == <<>>

\* leaf i is the first leaf of a pitched logical tie
IsTieHead(leaves, i) ==
    /\ leaves[i].p > 0
    /\ (i = 1 \/ ~leaves[i - 1].t)

\* index (1-based) of the pitched logical tie leaf i belongs to
TieIndex(leaves, i) ==
    Cardinality({j \in 1..i : IsTieHead(leaves, j)})

\* Fader.__len__: the number of pitched logical ties of contents
FaderLen(leaves) ==
    Cardinality({j \in DOMAIN leaves : IsTieHead(leaves, j)})

RECURSIVE SumSeq(_)
SumSeq(s) == IF s = <<>> THEN 0 ELSE Head(s) + SumSeq(Tail(s))

\* ---------------------------------------------------------------- render
\* variant: the rest that replaces a leaf is always a quarter rest
ReplaceByRestsQuarter(leaves, m) ==
    [i \in DOMAIN leaves |->
        IF leaves[i].p > 0 /\ m[TieIndex(leaves, i)] = 0
        THEN Leaf(0, 1, FALSE)
        ELSE leaves[i]]

\* lines 1000-1006 of _mask_to_selection: every leaf of a pitched logical
\* tie whose mask value is 0 is replaced by a rest of its written duration
ReplaceByRests(leaves, m) ==
    [i \in DOMAIN leaves |->
        IF leaves[i].p > 0 /\ m[TieIndex(leaves, i)] = 0
        THEN Leaf(0, leaves[i].d, FALSE)
        ELSE leaves[i]]

\* the time axis of a container: one cell per quarter, remembering the
\* pitch, the logical tie (tid) and the leaf (lid) that cover it
RECURSIVE CellsFrom(_, _)
CellsFrom(leaves, i) ==
    IF i > Len(leaves) THEN <<>>
    ELSE [k \in 1..leaves[i].d |->
            [p |-> leaves[i].p,
             tid |-> IF leaves[i].p > 0 THEN TieIndex(leaves, i) ELSE 0,
             lid |-> i]]
         \o CellsFrom(leaves, i + 1)

\* fill_with_rests: the last measure is completed with rests
FillWithRests(cells, nleaves) ==
    LET missing == (MeasureLen - (Len(cells) % MeasureLen)) % MeasureLen
    IN  cells \o [k \in 1..missing |-> [p |-> 0, tid |-> 0, lid |-> nleaves + 1]]

\* rests_to_multimeasure_rest: a measure holding only rests becomes one
\* multi-measure rest
MeasureOf(pos) == (pos - 1) \div MeasureLen

RestsToMultimeasureRest(cells) ==
    [i \in DOMAIN cells |->
        IF \A j \in DOMAIN cells :
              MeasureOf(j) = MeasureOf(i) => cells[j].p = 0
        THEN [p |-> -1, tid |-> 0, lid |-> 0]
        ELSE cells[i]]

\* what decides whether two neighbouring cells are written as one leaf:
\* rewrite_meter fuses the leaves of a logical tie and neighbouring rests
\* inside a measure; without it the leaves stay as they are
CellKey(c, rewrite) ==
    IF rewrite THEN <<c.p, c.tid, 0>> ELSE <<c.p, c.tid, c.lid>>

LeafStartsAt(cells, pos, rewrite) ==
    \/ pos = 1
    \/ (pos - 1) % MeasureLen = 0
    \/ CellKey(cells[pos], rewrite) # CellKey(cells[pos - 1], rewrite)

\* leaves are split at the bar lines (enforce_time_signature) and written
\* out again from the time axis
RECURSIVE LeavesFrom(_, _, _)
LeavesFrom(cells, pos, rewrite) ==
    IF pos > Len(cells) THEN <<>>
    ELSE LET e == CHOOSE e \in pos..Len(cells) :
                    /\ e = Len(cells) \/ LeafStartsAt(cells, e + 1, rewrite)
                    /\ \A x \in (pos + 1)..e : ~LeafStartsAt(cells, x, rewrite)
         IN  << Leaf(cells[pos].p, e - pos + 1,
                     /\ cells[pos].tid > 0
                     /\ e < Len(cells)
                     /\ cells[e + 1].tid = cells[pos].tid) >>
             \o LeavesFrom(cells, e + 1, rewrite)

EnforceTimeSignature(leaves, disable_rewrite_meter, use_multimeasure_rest) ==
    LET filled == FillWithRests(CellsFrom(leaves, 1), Len(leaves))
        cells  == IF use_multimeasure_rest
                  THEN RestsToMultimeasureRest(filled)
                  ELSE filled
    IN  LeavesFrom(cells, 1, ~disable_rewrite_meter)

\* Fader._mask_to_selection
MaskToSelection(leaves, m, omit, disable_rewrite_meter, use_multimeasure_rest) ==
    IF omit
    THEN ReplaceByRests(leaves, m)
    ELSE EnforceTimeSignature(ReplaceByRests(leaves, m),
                              disable_rewrite_meter, use_multimeasure_rest)


\* ------------------------------------------------------------ Fader state
VARIABLES
    contents,                  \* _contents: the leaves of the (copied) container
    fader_type,                \* _fader_type: "in" or "out"
    max_steps,                 \* _max_steps
    mask,                      \* _mask
    is_first_window,           \* _is_first_window
    new_mask,                  \* _new_mask
    current_window,            \* _current_window (NoWindow until the first render)
    omit_all_time_signatures,  \* _omit_all_time_signatures
    disable_rewrite_meter,     \* _disable_rewrite_meter
    use_multimeasure_rest,     \* _use_multimeasure_rest
    op,                        \* the last operation performed on the fader
    err,                       \* what it raised ("none" if it returned)
    nret,                      \* the number of windows it returned
    ops,                       \* operations since construction: 0, 1, or 2 for more
    plain,                     \* built as Fader(contents), nothing assigned since
    adv                        \* advancing calls since construction (counted while plain)

vars == <<contents, fader_type, max_steps, mask, is_first_window, new_mask,
          current_window, omit_all_time_signatures, disable_rewrite_meter,
          use_multimeasure_rest, op, err, nret, ops, plain, adv>>

config == <<contents, fader_type, max_steps, omit_all_time_signatures,
            disable_rewrite_meter, use_multimeasure_rest>>

NoWindow == <<>>

\* the other transducers: each is a record of its fields, and NoObject in
\* the specifications that study another transducer
VARIABLES
    hocketer,                  \* a Hocketer
    randomiser,                \* a PitchRandomiser
    looper,                    \* a WindowLooper
    by_notes,                  \* a LoopByNotes
    by_elements,               \* a LoopWindowByElements
    seen,                      \* what current_window last gave its reader
    utility,                   \* the latest call of a function of auxjad
    held                       \* a list the caller of a fader holds

others == <<hocketer, randomiser, looper, by_notes, by_elements, seen,
            utility, held>>

NoObject == [op |-> "absent"]

\* current_window has not been read
NoRead == [of |-> "nothing"]

\* neither a LoopByNotes nor a LoopWindowByElements, and nothing read
NoLoops ==
    /\ by_notes = NoObject
    /\ by_elements = NoObject
    /\ seen = NoRead
    /\ utility = NoObject
    /\ held = NoRead

Masks(n) == [1..n -> {0, 1}]

\* Fader._done
Done(type, m) ==
    IF type = "out"
    THEN \A i \in DOMAIN m : m[i] # 1
    ELSE \A i \in DOMAIN m : m[i] # 0

\* the mask built by reset_mask
DefaultMask(type, n) ==
    IF type = "out" THEN [i \in 1..n |-> 1] ELSE [i \in 1..n |-> 0]

\* variant: any element is picked and toggled
RECURSIVE RemoveElementToggle(_, _)
RemoveElementToggle(m, steps) ==
    IF steps = 0 THEN {[mask |-> m, raised |-> FALSE]}
    ELSE IF \E i \in DOMAIN m : m[i] = 1
         THEN UNION {RemoveElementToggle([m EXCEPT ![i] = 1 - m[i]], steps - 1) :
                        i \in DOMAIN m}
         ELSE {[mask |-> m, raised |-> TRUE]}

\* variant: nothing is raised when no element is left to remove
RECURSIVE RemoveElementClamped(_, _)
RemoveElementClamped(m, steps) ==
    IF steps = 0 THEN {[mask |-> m, raised |-> FALSE]}
    ELSE IF \E i \in DOMAIN m : m[i] = 1
         THEN UNION {RemoveElementClamped([m EXCEPT ![i] = 0], steps - 1) :
                        i \in {j \in DOMAIN m : m[j] = 1}}
         ELSE {[mask |-> m, raised |-> FALSE]}

\* variant: when too few elements are 1 the mask is left as it was before
\* RuntimeError is raised
RemoveElementRollingBack(m, steps) ==
    IF steps > SumSeq(m)
    THEN {[mask |-> m, raised |-> TRUE]}
    ELSE {[mask |-> m2, raised |-> FALSE] :
             m2 \in {x \in Masks(Len(m)) :
                        /\ \A i \in DOMAIN m : x[i] <= m[i]
                        /\ SumSeq(m) - SumSeq(x) = steps}}

\* Fader._remove_element once the number of steps is drawn: the set of
\* possible outcomes, each the mask reached and whether RuntimeError was raised
RECURSIVE RemoveElement(_, _)
RemoveElement(m, steps) ==
    IF steps = 0 THEN {[mask |-> m, raised |-> FALSE]}
    ELSE IF \E i \in DOMAIN m : m[i] = 1
         THEN UNION {RemoveElement([m EXCEPT ![i] = 0], steps - 1) :
                        i \in {j \in DOMAIN m : m[j] = 1}}
         ELSE {[mask |-> m, raised |-> TRUE]}

\* Fader._add_element, likewise
RECURSIVE AddElement(_, _)
AddElement(m, steps) ==
    IF steps = 0 THEN {[mask |-> m, raised |-> FALSE]}
    ELSE IF \E i \in DOMAIN m : m[i] = 0
         THEN UNION {AddElement([m EXCEPT ![i] = 1], steps - 1) :
                        i \in {j \in DOMAIN m : m[j] = 0}}
         ELSE {[mask |-> m, raised |-> TRUE]}

\* the window _mask_to_selection builds from mask m in the current state
Render(m) ==
    MaskToSelection(contents, m, omit_all_time_signatures,
                    disable_rewrite_meter, use_multimeasure_rest)

\* the part of the state a call can change
Here == [mask |-> mask, win |-> current_window, first |-> is_first_window,
         new |-> new_mask, adv |-> adv, err |-> "none", nret |-> 0]

\* variant: the number of steps is drawn from 0..max_steps
DrawStepsFromZero == 0..max_steps

\* random.randint(1, self._max_steps)
DrawSteps == 1..max_steps

\* the first branch of __call__: mask elements are removed or added, and
\* the window is rendered unless RuntimeError was raised on the way
Advance(s) ==
    {[s EXCEPT !.mask = o.mask,
               !.win = IF o.raised THEN s.win ELSE Render(o.mask),
               !.adv = IF plain THEN s.adv + 1 ELSE 0,
               !.err = IF o.raised THEN "RuntimeError" ELSE "none",
               !.nret = IF o.raised THEN 0 ELSE 1] :
       o \in UNION {IF fader_type = "out"
                    THEN RemoveElement(s.mask, k)
                    ELSE AddElement(s.mask, k) : k \in DrawSteps}}

\* the second branch of __call__: the window is rendered from the mask as
\* it is, and the two flags are cleared
Emit(s) ==
    {[s EXCEPT !.win = Render(s.mask),
               !.first = FALSE,
               !.new = FALSE,
               !.err = "none",
               !.nret = 1]}

\* variant: the first-window flag is not looked at
CallOutcomesIgnoringFirst(s) ==
    IF ~s.new THEN Advance(s) ELSE Emit(s)

\* variant: the new-mask flag is not looked at
CallOutcomesIgnoringNewMask(s) ==
    IF ~s.first THEN Advance(s) ELSE Emit(s)

\* Fader.__call__: the set of states one call can lead to
CallOutcomes(s) ==
    IF ~s.first /\ ~s.new THEN Advance(s) ELSE Emit(s)

\* Fader.__next__
NextOutcomes(s) ==
    IF Done(fader_type, s.mask)
    THEN {[s EXCEPT !.err = "StopIteration", !.nret = 0]}
    ELSE CallOutcomes(s)

\* Fader.output_all: calls until the process is done
RECURSIVE OutputAllFrom(_, _)
OutputAllFrom(s, count) ==
    UNION {IF o.err # "none" THEN {[o EXCEPT !.nret = 0]}
           ELSE IF Done(fader_type, o.mask) THEN {[o EXCEPT !.nret = count + 1]}
           ELSE OutputAllFrom(o, count + 1) :
              o \in CallOutcomes(s)}

\* Fader.output_n: n calls
RECURSIVE OutputNFrom(_, _, _)
OutputNFrom(s, n, count) ==
    IF n = 0 THEN {[s EXCEPT !.err = "none", !.nret = count]}
    ELSE UNION {IF o.err # "none" THEN {[o EXCEPT !.nret = 0]}
                ELSE OutputNFrom(o, n - 1, count + 1) :
                   o \in CallOutcomes(s)}

Performed(name) ==
    /\ op' = name
    /\ ops' = IF ops < 2 THEN ops + 1 ELSE 2
    /\ UNCHANGED others

\* a calling operation ended in outcome o
Becomes(name, o) ==
    /\ mask' = o.mask
    /\ current_window' = o.win
    /\ is_first_window' = o.first
    /\ new_mask' = o.new
    /\ adv' = o.adv
    /\ err' = o.err
    /\ nret' = o.nret
    /\ Performed(name)
    /\ UNCHANGED <<config, plain>>

\* an assignment returned (e = "none") or raised e
Assigned(name, e) ==
    /\ err' = e
    /\ nret' = 0
    /\ Performed(name)
    /\ plain' = FALSE
    /\ adv' = 0

CanCount == plain => adv < MaxCalls

\* --------------------------------------------------------------- actions
\* Fader.__init__, with disable_rewrite_meter and use_multimeasure_rest
\* left at their defaults
FaderInit ==
    /\ contents \in Containers
    /\ fader_type \in {"in", "out"}
    /\ max_steps \in 1..MaxSteps
    /\ mask \in Masks(FaderLen(contents))
    /\ is_first_window \in BOOLEAN
    /\ new_mask = FALSE
    /\ current_window = NoWindow
    /\ omit_all_time_signatures \in BOOLEAN
    /\ disable_rewrite_meter = FALSE
    /\ use_multimeasure_rest = TRUE
    /\ op = "init"
    /\ err = "none"
    /\ nret = 0
    /\ ops = 0
    /\ plain = /\ fader_type = "out"
               /\ max_steps = 1
               /\ is_first_window
               /\ mask = DefaultMask("out", FaderLen(contents))
    /\ adv = 0
    /\ hocketer = NoObject
    /\ randomiser = NoObject
    /\ looper = NoObject
    /\ NoLoops

Call ==
    /\ CanCount
    /\ \E o \in CallOutcomes(Here) : Becomes("call", o)

NextWindow ==
    /\ CanCount
    /\ \E o \in NextOutcomes(Here) : Becomes("next", o)

OutputAll ==
    /\ CanCount
    /\ \E o \in OutputAllFrom(Here, 0) : Becomes("output_all", o)

OutputN ==
    /\ CanCount
    /\ \E n \in 0..MaxN :
          IF n < 1
          THEN Becomes("output_n", [Here EXCEPT !.err = "ValueError"])
          ELSE \E o \in OutputNFrom(Here, n, 0) : Becomes("output_n", o)

\* Fader.reset_mask
ResetMask ==
    /\ new_mask' = TRUE
    /\ mask' = DefaultMask(fader_type, FaderLen(contents))
    /\ Assigned("reset_mask", "none")
    /\ UNCHANGED <<config, is_first_window, current_window>>

\* the lists a caller may hand to the mask setter
MaskInputs ==
    UNION {[1..n -> {0, 1}] : n \in 0..(MaxLeaves + 1)}
    \cup {[i \in 1..n |-> 2] : n \in 1..MaxLeaves}

\* variant: the length of the list is not checked
SetMaskAnyLength ==
    \E m \in MaskInputs :
        IF \E i \in DOMAIN m : m[i] \notin {0, 1}
        THEN /\ Assigned("mask", "ValueError")
             /\ UNCHANGED <<config, mask, new_mask, is_first_window, current_window>>
        ELSE /\ mask' = m
             /\ new_mask' = TRUE
             /\ Assigned("mask", "none")
             /\ UNCHANGED <<config, is_first_window, current_window>>

\* Fader.mask (setter)
SetMask ==
    \E m \in MaskInputs :
        IF \E i \in DOMAIN m : m[i] \notin {0, 1}
        THEN /\ Assigned("mask", "ValueError")
             /\ UNCHANGED <<config, mask, new_mask, is_first_window, current_window>>
        ELSE IF Len(m) # FaderLen(contents)
        THEN /\ Assigned("mask", "ValueError")
             /\ UNCHANGED <<config, mask, new_mask, is_first_window, current_window>>
        ELSE /\ mask' = m
             /\ new_mask' = TRUE
             /\ Assigned("mask", "none")
             /\ UNCHANGED <<config, is_first_window, current_window>>

\* variant: a new fader_type restarts the process, as reset_mask does
SetFaderTypeResettingMask ==
    \E t \in {"in", "out", "sideways"} :
        /\ IF t \notin {"in", "out"}
           THEN /\ Assigned("fader_type", "ValueError")
                /\ UNCHANGED <<fader_type, mask, new_mask>>
           ELSE /\ Assigned("fader_type", "none")
                /\ fader_type' = t
                /\ mask' = DefaultMask(t, FaderLen(contents))
                /\ new_mask' = TRUE
        /\ UNCHANGED <<contents, max_steps, omit_all_time_signatures,
                       disable_rewrite_meter, use_multimeasure_rest,
                       is_first_window, current_window>>

\* Fader.fader_type (setter)
SetFaderType ==
    \E t \in {"in", "out", "sideways"} :
        /\ IF t \notin {"in", "out"}
           THEN Assigned("fader_type", "ValueError") /\ UNCHANGED fader_type
           ELSE Assigned("fader_type", "none") /\ fader_type' = t
        /\ UNCHANGED <<contents, max_steps, omit_all_time_signatures,
                       disable_rewrite_meter, use_multimeasure_rest,
                       mask, new_mask, is_first_window, current_window>>

\* Fader.max_steps (setter)
SetMaxSteps ==
    \E k \in 0..MaxSteps :
        /\ IF k < 1
           THEN Assigned("max_steps", "ValueError") /\ UNCHANGED max_steps
           ELSE Assigned("max_steps", "none") /\ max_steps' = k
        /\ UNCHANGED <<contents, fader_type, omit_all_time_signatures,
                       disable_rewrite_meter, use_multimeasure_rest,
                       mask, new_mask, is_first_window, current_window>>

\* variant: the mask is not reset
SetContentsKeepingMask ==
    \E c \in Containers \cup {NotAContainer} :
        IF c = NotAContainer
        THEN /\ Assigned("contents", "TypeError")
             /\ UNCHANGED <<config, mask, new_mask, is_first_window, current_window>>
        ELSE /\ contents' = c
             /\ Assigned("contents", "none")
             /\ UNCHANGED <<fader_type, max_steps, omit_all_time_signatures,
                            disable_rewrite_meter, use_multimeasure_rest,
                            mask, new_mask, is_first_window, current_window>>

\* Fader.contents (setter)
SetContents ==
    \E c \in Containers \cup {NotAContainer} :
        IF c = NotAContainer
        THEN /\ Assigned("contents", "TypeError")
             /\ UNCHANGED <<config, mask, new_mask, is_first_window, current_window>>
        ELSE /\ contents' = c
             /\ new_mask' = TRUE
             /\ mask' = DefaultMask(fader_type, FaderLen(c))
             /\ Assigned("contents", "none")
             /\ UNCHANGED <<fader_type, max_steps, omit_all_time_signatures,
                            disable_rewrite_meter, use_multimeasure_rest,
                            is_first_window, current_window>>

\* Fader.omit_all_time_signatures (setter)
SetOmitAllTimeSignatures ==
    /\ omit_all_time_signatures' \in BOOLEAN
    /\ Assigned("omit_all_time_signatures", "none")
    /\ UNCHANGED <<contents, fader_type, max_steps, disable_rewrite_meter,
                   use_multimeasure_rest, mask, new_mask, is_first_window,
                   current_window>>

FaderNext ==
    \/ Call
    \/ NextWindow
    \/ OutputAll
    \/ OutputN
    \/ ResetMask
    \/ SetMask
    \/ SetFaderType
    \/ SetMaxSteps
    \/ SetContents
    \/ SetOmitAllTimeSignatures

FaderSpec == FaderInit /\ [][FaderNext]_vars

\* ------------------------------------------------- the mask and its caller
\* A fader and the list its caller holds: held is [of |-> "mask"] when that
\* list is the very list object in _mask, and NoRead when the caller holds
\* no list of the fader's.

\* an operation of this part ended, raising e
HeldPerformed(name, e) ==
    /\ op' = name
    /\ err' = e
    /\ nret' = 0
    /\ ops' = IF ops < 2 THEN ops + 1 ELSE 2
    /\ UNCHANGED <<config, is_first_window, current_window,
                   hocketer, randomiser, looper, by_notes, by_elements, seen,
                   utility>>

\* what the mask setter's validation raises for list m
MaskError(m) ==
    IF \E i \in DOMAIN m : m[i] \notin {0, 1} THEN "ValueError"
    ELSE IF Len(m) # FaderLen(contents) THEN "ValueError"
    ELSE "none"

\* Fader.mask (getter): the caller is given self._mask itself
GetMaskHeld ==
    /\ held' = [of |-> "mask"]
    /\ HeldPerformed("mask_read", "none")
    /\ UNCHANGED <<mask, new_mask, plain, adv>>

\* Fader.mask (setter): the list the caller passed is stored as it is, and
\* the caller still holds it
SetMaskHeld ==
    \E m \in MaskInputs :
        /\ HeldPerformed("mask", MaskError(m))
        /\ plain' = FALSE
        /\ adv' = 0
        /\ IF MaskError(m) = "none"
           THEN /\ mask' = m
                /\ new_mask' = TRUE
                /\ held' = [of |-> "mask"]
           ELSE UNCHANGED <<mask, new_mask, held>>

\* Fader.reset_mask: _mask becomes a new list, which the caller does not hold
ResetMaskHeld ==
    /\ mask' = DefaultMask(fader_type, FaderLen(contents))
    /\ new_mask' = TRUE
    /\ held' = NoRead
    /\ HeldPerformed("reset_mask", "none")
    /\ plain' = FALSE
    /\ adv' = 0

\* what one list operation of the caller can turn list m into: an element
\* assigned, a value appended, the last element popped
ListMutations(m) ==
    ({[m EXCEPT ![i] = v] : i \in DOMAIN m, v \in {0, 1, 2}}
     \cup (IF Len(m) <= MaxLeaves THEN {Append(m, v) : v \in {0, 1, 2}} ELSE {})
     \cup (IF Len(m) > 0 THEN {SubSeq(m, 1, Len(m) - 1)} ELSE {}))
    \ {m}

\* the caller changes the list it holds; no code of the fader runs
CallerMutatesHeld ==
    /\ held = [of |-> "mask"]
    /\ \E m \in ListMutations(mask) : mask' = m
    /\ HeldPerformed("caller", "none")
    /\ UNCHANGED <<new_mask, plain, adv, held>>

FaderMaskNext ==
    \/ GetMaskHeld
    \/ SetMaskHeld
    \/ ResetMaskHeld
    \/ CallerMutatesHeld

FaderMaskSpec == FaderInit /\ [][FaderMaskNext]_<<vars, others>>

\* ---------------------------------------------------- rendering on its own
\* a fader built over any container, mask and rendering options, and called
FaderRenderInit ==
    /\ contents \in ContainersOver(RenderDurations)
    /\ fader_type \in {"in", "out"}
    /\ max_steps = 1
    /\ mask \in Masks(FaderLen(contents))
    /\ is_first_window \in BOOLEAN
    /\ new_mask = FALSE
    /\ current_window = NoWindow
    /\ omit_all_time_signatures \in BOOLEAN
    /\ disable_rewrite_meter \in BOOLEAN
    /\ use_multimeasure_rest \in BOOLEAN
    /\ op = "init"
    /\ err = "none"
    /\ nret = 0
    /\ ops = 0
    /\ plain = FALSE
    /\ adv = 0
    /\ hocketer = NoObject
    /\ randomiser = NoObject
    /\ looper = NoObject
    /\ NoLoops

FaderRenderSpec == FaderRenderInit /\ [][Call]_vars


\* ================================================================ Hocketer
\* a specification that studies another transducer holds no fader
FaderAbsent ==
    /\ contents = <<>>
    /\ fader_type = "out"
    /\ max_steps = 1
    /\ mask = <<>>
    /\ is_first_window = TRUE
    /\ new_mask = FALSE
    /\ current_window = NoWindow
    /\ omit_all_time_signatures = FALSE
    /\ disable_rewrite_meter = FALSE
    /\ use_multimeasure_rest = TRUE
    /\ op = "absent"
    /\ err = "none"
    /\ nret = 0
    /\ ops = 0
    /\ plain = FALSE
    /\ adv = 0

allvars == <<vars, others>>

MaxVoices == 2

\* the weight a caller may give to a voice
WeightValues == {0, 1}

WeightLists == UNION {[1..n -> WeightValues] : n \in 0..MaxVoices}

\* the weights argument of the constructor: None or a list
WeightArgs ==
    {[given |-> FALSE, list |-> <<>>]}
    \cup {[given |-> TRUE, list |-> w] : w \in WeightLists}

\* _voices = None
NoVoices == <<>>

\* abjad.select(...).logical_ties(): a rest is a logical tie of its own
IsLogicalTieHead(leaves, i) == i = 1 \/ ~leaves[i - 1].t

LogicalTieIndex(leaves, i) ==
    Cardinality({j \in 1..i : IsLogicalTieHead(leaves, j)})

LogicalTies(leaves) ==
    1..Cardinality({j \in DOMAIN leaves : IsLogicalTieHead(leaves, j)})

\* what random.choices(range(n), weights=w, k=...) raises whatever it draws:
\* the numbers of weights and of voices differ, or there is no voice
ChoicesError(n, w) ==
    IF Len(w) # n THEN "ValueError"
    ELSE IF n = 0 THEN "IndexError"
    ELSE "none"

\* the voices one draw of random.choices can give.  A voice of weight 0 is
\* never drawn; when every weight is 0 the interpreters that do not reject
\* the weights (see ZeroTotalRaises) always give the last voice
Drawable(n, w) ==
    IF SumSeq(w) = 0 THEN {n} ELSE {v \in 1..n : w[v] > 0}

\* random.choices raises ValueError for weights whose total is zero (on the
\* interpreters that check the total)
ZeroTotalRaises(w) == SumSeq(w) = 0

\* lines 903-908: the voices in the list of k draws with replacement
ChosenWithReplacement(n, w, k) ==
    {S \in SUBSET Drawable(n, w) : Cardinality(S) <= k /\ (k > 0 => S # {})}

\* variant: a voice that is in the list already is appended again
ChosenDistinctWithRepeats(n, w, k) ==
    IF k < 1 THEN {{}}
    ELSE {S \in SUBSET Drawable(n, w) : S # {} /\ Cardinality(S) <= k}

\* lines 909-919: one voice is drawn at a time and appended unless it is in
\* the list already, until the list holds k voices; no list comes out when
\* fewer than k voices can be drawn
ChosenDistinct(n, w, k) ==
    IF k < 1 THEN {{}}
    ELSE {S \in SUBSET Drawable(n, w) : Cardinality(S) = k}

\* lines 900-919: the outcomes of building selected_voices, each the
\* exception raised ("diverges" when the while loop never ends) and the set
\* of voices selected for each logical tie
SelectedVoices(h) ==
    LET draws == ~h.force_k_voices \/ h.k > 0
        e     == ChoicesError(h.n_voices, h.weights)
        items == IF h.force_k_voices
                 THEN ChosenDistinct(h.n_voices, h.weights, h.k)
                 ELSE ChosenWithReplacement(h.n_voices, h.weights, h.k)
    IN  IF draws /\ e # "none"
        THEN {[err |-> e, selected |-> <<>>]}
        ELSE (IF draws /\ ZeroTotalRaises(h.weights)
              THEN {[err |-> "ValueError", selected |-> <<>>]}
              ELSE {})
             \cup
             (IF items = {}
              THEN {[err |-> "diverges", selected |-> <<>>]}
              ELSE {[err |-> "none", selected |-> s] :
                       s \in [LogicalTies(h.contents) -> items]})

\* lines 921-932: in voice v every leaf of a logical tie for which v was not
\* selected is replaced by a rest of its written duration
SilenceUnselected(leaves, selected, v) ==
    [i \in DOMAIN leaves |->
        IF v \in selected[LogicalTieIndex(leaves, i)]
        THEN leaves[i]
        ELSE Leaf(0, leaves[i].d, FALSE)]

\* lines 921-954: voice v as it is written out
HocketVoice(h, selected, v) ==
    LET cells == CellsFrom(SilenceUnselected(h.contents, selected, v), 1)
    IN  LeavesFrom(IF h.use_multimeasure_rests
                   THEN RestsToMultimeasureRest(cells)
                   ELSE cells,
                   1, ~h.disable_rewrite_meter)

\* Hocketer._hocket_process: the outcomes of one run
HocketProcess(h) ==
    {[err      |-> s.err,
      selected |-> IF s.err = "none" THEN s.selected ELSE h.selected,
      voices   |-> IF s.err = "none"
                   THEN [v \in 1..h.n_voices |-> HocketVoice(h, s.selected, v)]
                   ELSE h.voices] :
        s \in SelectedVoices(h)}

\* Hocketer.reset_weights
UniformWeights(n) == [i \in 1..n |-> 1]

\* Hocketer.__init__: the object built, or the arguments and the exception
\* raised (built = FALSE)
NewHocketer(c, n, k, a, force, drm, mm) ==
    LET e == IF a.given /\ Len(a.list) # n THEN "ValueError"
             ELSE IF force /\ k > n THEN "ValueError"
             ELSE "none"
    IN  [built |-> e = "none",
         contents |-> c,
         n_voices |-> n,
         k |-> k,
         weights |-> IF a.given THEN a.list ELSE UniformWeights(n),
         force_k_voices |-> force,
         disable_rewrite_meter |-> drm,
         use_multimeasure_rests |-> mm,
         voices |-> NoVoices,
         selected |-> <<>>,
         op |-> "init",
         err |-> e]

\* containers of one leaf
OneLeafContainers == {c \in Containers : Len(c) = 1}

\* Hocketer.__init__ over short contents, with disable_rewrite_meter and
\* use_multimeasure_rests left at their defaults
HocketerInit ==
    /\ FaderAbsent
    /\ randomiser = NoObject
    /\ looper = NoObject
    /\ NoLoops
    /\ \E c \in OneLeafContainers, n \in 0..MaxVoices, k \in 0..MaxVoices,
          a \in WeightArgs, force \in BOOLEAN :
          hocketer = NewHocketer(c, n, k, a, force, FALSE, TRUE)

\* the hocketer exists and is not inside a call that never returns
HocketerIdle == hocketer.built /\ hocketer.err # "diverges"

\* Hocketer.current_window: None before the first call, then a copy of
\* each voice
HocketerCurrentWindow(h) == h.voices

\* the hocketer ends operation name as h, having raised e
HocketerBecomes(name, h, e) ==
    /\ HocketerIdle
    /\ hocketer' = [h EXCEPT !.op = name, !.err = e]
    /\ seen' = IF name = "current_window"
               THEN [of |-> "hocketer", value |-> HocketerCurrentWindow(h)]
               ELSE seen
    /\ UNCHANGED <<vars, randomiser, looper, by_notes, by_elements, utility, held>>

\* Hocketer.__call__
HocketerCall ==
    \E o \in HocketProcess(hocketer) :
        HocketerBecomes("call",
                        [hocketer EXCEPT !.voices = o.voices,
                                         !.selected = o.selected],
                        o.err)

\* hocketer.current_window
HocketerReadWindow == HocketerBecomes("current_window", hocketer, "none")

\* Hocketer.contents (setter)
HocketerSetContents ==
    \E c \in OneLeafContainers \cup {NotAContainer} :
        IF c = NotAContainer
        THEN HocketerBecomes("contents", hocketer, "TypeError")
        ELSE HocketerBecomes("contents", [hocketer EXCEPT !.contents = c], "none")

\* variant: the weights are reset along with the number of voices
HocketerSetNVoicesResettingWeights ==
    \E n \in 0..MaxVoices :
        IF n < 1
        THEN HocketerBecomes("n_voices", hocketer, "ValueError")
        ELSE IF hocketer.force_k_voices /\ hocketer.k > n
        THEN HocketerBecomes("n_voices", hocketer, "ValueError")
        ELSE HocketerBecomes("n_voices",
                             [hocketer EXCEPT !.n_voices = n,
                                              !.weights = UniformWeights(n)],
                             "none")

\* Hocketer.n_voices (setter)
HocketerSetNVoices ==
    \E n \in 0..MaxVoices :
        IF n < 1
        THEN HocketerBecomes("n_voices", hocketer, "ValueError")
        ELSE IF hocketer.force_k_voices /\ hocketer.k > n
        THEN HocketerBecomes("n_voices", hocketer, "ValueError")
        ELSE HocketerBecomes("n_voices", [hocketer EXCEPT !.n_voices = n], "none")

\* Hocketer.weights (setter)
HocketerSetWeights ==
    \E w \in WeightLists :
        IF Len(w) # hocketer.n_voices
        THEN HocketerBecomes("weights", hocketer, "ValueError")
        ELSE HocketerBecomes("weights", [hocketer EXCEPT !.weights = w], "none")

\* Hocketer.reset_weights
HocketerResetWeights ==
    HocketerBecomes("reset_weights",
                    [hocketer EXCEPT !.weights = UniformWeights(hocketer.n_voices)],
                    "none")

\* variant: k is not compared with n_voices
HocketerSetKUnchecked ==
    \E k \in 0..MaxVoices :
        IF k < 1
        THEN HocketerBecomes("k", hocketer, "ValueError")
        ELSE HocketerBecomes("k", [hocketer EXCEPT !.k = k], "none")

\* Hocketer.k (setter)
HocketerSetK ==
    \E k \in 0..MaxVoices :
        IF k < 1
        THEN HocketerBecomes("k", hocketer, "ValueError")
        ELSE IF hocketer.force_k_voices /\ k > hocketer.n_voices
        THEN HocketerBecomes("k", hocketer, "ValueError")
        ELSE HocketerBecomes("k", [hocketer EXCEPT !.k = k], "none")

\* Hocketer.force_k_voices (setter)
HocketerSetForceKVoices ==
    \E force \in BOOLEAN :
        IF force /\ hocketer.k > hocketer.n_voices
        THEN HocketerBecomes("force_k_voices", hocketer, "ValueError")
        ELSE HocketerBecomes("force_k_voices",
                             [hocketer EXCEPT !.force_k_voices = force], "none")

HocketerNext ==
    \/ HocketerCall
    \/ HocketerSetContents
    \/ HocketerSetNVoices
    \/ HocketerSetWeights
    \/ HocketerResetWeights
    \/ HocketerSetK
    \/ HocketerSetForceKVoices

HocketerSpec == HocketerInit /\ [][HocketerNext]_allvars

\* ------------------------------------------------ the hocket process on its own
\* a hocketer built over any container, and called
HocketerCallInit ==
    /\ FaderAbsent
    /\ randomiser = NoObject
    /\ looper = NoObject
    /\ NoLoops
    /\ \E c \in Containers, n \in 0..MaxVoices, k \in 0..MaxVoices,
          a \in WeightArgs, force \in BOOLEAN :
          hocketer = NewHocketer(c, n, k, a, force, FALSE, TRUE)

HocketerCallSpec == HocketerCallInit /\ [][HocketerCall]_allvars

\* ------------------------------------------ the draw loop of forced k voices
\* Lines 909-919 one draw at a time, over contents of one logical tie: pc
\* is "drawing" while the while loop runs, item is the list it fills, round
\* the parity of the number of rounds the loop has made.
HocketerLoopInit ==
    /\ FaderAbsent
    /\ randomiser = NoObject
    /\ looper = NoObject
    /\ NoLoops
    /\ \E c \in OneLeafContainers, n \in 0..MaxVoices, k \in 0..MaxVoices,
          a \in WeightArgs :
          /\ NewHocketer(c, n, k, a, TRUE, FALSE, TRUE).built
          /\ hocketer = NewHocketer(c, n, k, a, TRUE, FALSE, TRUE)
                        @@ [item |-> {}, pc |-> "idle", round |-> 0]

\* the call returns with item as the voices selected for the logical tie
HocketerReturns(h, item) ==
    LET selected == [t \in LogicalTies(h.contents) |-> item]
    IN  HocketerBecomes("call",
                        [h EXCEPT !.pc = "idle",
                                  !.item = item,
                                  !.selected = selected,
                                  !.voices = [v \in 1..h.n_voices |->
                                                 HocketVoice(h, selected, v)]],
                        "none")

\* Hocketer.__call__ up to the while loop
HocketerEntersLoop ==
    /\ hocketer.pc = "idle"
    /\ IF hocketer.k < 1
       THEN HocketerReturns(hocketer, {})
       ELSE HocketerBecomes("call",
                            [hocketer EXCEPT !.pc = "drawing", !.item = {}],
                            "none")

\* a round of the while loop in which random.choices raises
HocketerDrawRaises ==
    /\ hocketer.pc = "drawing"
    /\ \/ /\ ChoicesError(hocketer.n_voices, hocketer.weights) # "none"
          /\ HocketerBecomes("call",
                             [hocketer EXCEPT !.pc = "idle", !.item = {}],
                             ChoicesError(hocketer.n_voices,
                                          hocketer.weights))
       \/ /\ ChoicesError(hocketer.n_voices, hocketer.weights) = "none"
          /\ ZeroTotalRaises(hocketer.weights)
          /\ HocketerBecomes("call",
                             [hocketer EXCEPT !.pc = "idle", !.item = {}],
                             "ValueError")

\* a round of the while loop in which random.choices gives voice, which is
\* appended unless it is in the list; the loop ends with k voices
HocketerDrawsVoice(voice) ==
    LET item == hocketer.item \cup {voice}
        h    == [hocketer EXCEPT !.round = 1 - @]
    IN  /\ hocketer.pc = "drawing"
        /\ ChoicesError(hocketer.n_voices, hocketer.weights) = "none"
        /\ voice \in Drawable(hocketer.n_voices, hocketer.weights)
        /\ IF Cardinality(item) < hocketer.k
           THEN HocketerBecomes("call", [h EXCEPT !.item = item], "none")
           ELSE HocketerReturns(h, item)

HocketerDraws == \E voice \in 1..MaxVoices : HocketerDrawsVoice(voice)

\* the weights are assigned between two calls
HocketerLoopSetWeights ==
    /\ hocketer.pc = "idle"
    /\ HocketerSetWeights

HocketerLoopNext ==
    \/ HocketerEntersLoop
    \/ HocketerDrawRaises
    \/ HocketerDraws
    \/ HocketerLoopSetWeights

\* fair random draws: while the loop runs, every voice random.choices can
\* give is given in the end
HocketerLoopSpec ==
    /\ HocketerLoopInit
    /\ [][HocketerLoopNext]_allvars
    /\ \A voice \in 1..MaxVoices : WF_allvars(HocketerDrawsVoice(voice))

\* ========================================================= PitchRandomiser
\* PitchRandomiser (src/auxjad/core/PitchRandomiser.py), with
\* use_tenney_selector left at its default (False).  Its leaves are records
\*   [kind |-> "rest", "note" or "chord", ps |-> the set of written pitches,
\*    d |-> written duration, t |-> tied to the next leaf]
MaxPool == 2

\* the pitches a caller may put in the pool; no leaf of contents has pitch 3
PoolPitches == {2, 3}

\* the written pitches of the chords of contents
ChordPitches == {{1}, {1, 2}}

RandomiserLeaves ==
    [kind : {"rest"}, ps : {{}}, d : Durations, t : BOOLEAN]
    \cup [kind : {"note"}, ps : {{p} : p \in Pitches}, d : Durations, t : BOOLEAN]
    \cup [kind : {"chord"}, ps : ChordPitches, d : Durations, t : BOOLEAN]

\* a tie starts on a note or chord and leads to a leaf of the same pitches
WellFormedPitched(s) ==
    \A i \in DOMAIN s :
        s[i].t => /\ s[i].kind # "rest"
                  /\ i < Len(s)
                  /\ s[i + 1].kind = s[i].kind
                  /\ s[i + 1].ps = s[i].ps

RandomiserContainers ==
    {s \in UNION {[1..n -> RandomiserLeaves] : n \in 1..MaxLeaves} :
        WellFormedPitched(s)}

Pools == UNION {[1..n -> PoolPitches] : n \in 0..MaxPool}

\* weights = None
NoWeights == [given |-> FALSE, list |-> <<>>]

\* what a caller may pass as weights: None or a list
PoolWeightArgs ==
    {NoWeights}
    \cup {[given |-> TRUE, list |-> w] :
             w \in UNION {[1..n -> WeightValues] : n \in 0..MaxPool}}

PoolSet(pool) == {pool[i] : i \in DOMAIN pool}

\* variant: the weights are kept whatever the number of pitches
WithPitchesKeepingWeights(r, pool) ==
    [r EXCEPT !.pitches = pool]

\* PitchRandomiser.pitches (setter) applied to r
WithPitches(r, pool) ==
    [r EXCEPT !.pitches = pool,
              !.weights = IF r.weights.given /\ Len(pool) # Len(r.weights.list)
                          THEN NoWeights
                          ELSE r.weights]

\* PitchRandomiser.weights (setter): what it raises for argument a
WeightsError(r, a) ==
    IF a.given /\ Len(a.list) # Len(r.pitches) THEN "ValueError" ELSE "none"

\* PitchRandomiser.weights (setter) applied to r
WithWeights(r, a) ==
    IF WeightsError(r, a) = "none" THEN [r EXCEPT !.weights = a] ELSE r

\* PitchRandomiser.contents (setter) applied to r
WithContents(r, c) ==
    [r EXCEPT !.contents = c,
              !.current_window = c,
              !.is_first_window = TRUE,
              !.calls = 0]

\* PitchRandomiser.__init__: the object built, or the exception raised
\* (built = FALSE); calls counts the calls that returned since construction
\* or the last assignment of contents (0, 1, or 2 for more)
NewRandomiser(c, pool, a, process) ==
    LET r0 == [built |-> TRUE, contents |-> c, current_window |-> c,
               is_first_window |-> TRUE, calls |-> 0,
               pitches |-> <<>>, weights |-> [given |-> TRUE, list |-> <<>>],
               processs_on_first_call |-> process,
               op |-> "init", err |-> "none"]
        r1 == WithPitches(r0, pool)
    IN  [WithWeights(r1, a) EXCEPT !.built = WeightsError(r1, a) = "none",
                                   !.err = WeightsError(r1, a)]

\* _pick_random_pitch: what random.choices(pitches, weights=weights) raises
PickError(r) ==
    IF r.weights.given
    THEN ChoicesError(Len(r.pitches), r.weights.list)
    ELSE IF Len(r.pitches) = 0 THEN "IndexError" ELSE "none"

\* _pick_random_pitch: the pitches a draw can give when it raises nothing
PickablePitches(r) ==
    IF r.weights.given
    THEN {r.pitches[i] : i \in Drawable(Len(r.pitches), r.weights.list)}
    ELSE PoolSet(r.pitches)

\* variant: a pitch that is in the list already is appended again
ChordPitchSetsWithRepeats(r, m) ==
    IF m > Len(r.pitches) THEN {PoolSet(r.pitches)}
    ELSE {S \in SUBSET PickablePitches(r) : S # {} /\ Cardinality(S) <= m}

\* lines 684-695: the pitches a chord of m note heads can be given: the whole
\* pool when it has fewer than m pitches, else m different pitches, drawn one
\* at a time until m are collected (none comes out when fewer than m
\* different pitches can be drawn)
ChordPitchSets(r, m) ==
    IF m > Len(r.pitches) THEN {PoolSet(r.pitches)}
    ELSE {S \in SUBSET PickablePitches(r) : Cardinality(S) = m}

\* the logical tie whose first leaf is head draws from the pool
DrawsFor(r, head) ==
    \/ head.kind = "note"
    \/ head.kind = "chord" /\ Cardinality(head.ps) <= Len(r.pitches)
                           /\ Cardinality(head.ps) >= 1

\* variant: a rest is given a pitch like a note
TiePitchSetsRestsToo(r, head) ==
    IF head.kind = "chord" THEN ChordPitchSets(r, Cardinality(head.ps))
    ELSE {{p} : p \in PickablePitches(r)}

\* lines 679-695: the pitches the leaves of a logical tie can be given
TiePitchSets(r, head) ==
    IF head.kind = "rest" THEN {{}}
    ELSE IF head.kind = "note" THEN {{p} : p \in PickablePitches(r)}
    ELSE ChordPitchSets(r, Cardinality(head.ps))

\* the first leaf of logical tie t
TieHead(leaves, t) ==
    leaves[CHOOSE i \in DOMAIN leaves :
              IsLogicalTieHead(leaves, i) /\ LogicalTieIndex(leaves, i) = t]

\* PitchRandomiser._rewrite_pitches: the outcomes, each the exception raised
\* ("diverges" when the while loop never ends) and the window built from a
\* copy of contents
RewritePitches(r) ==
    LET ties  == LogicalTies(r.contents)
        draws == \E t \in ties : DrawsFor(r, TieHead(r.contents, t))
    IN  IF draws /\ PickError(r) # "none"
        THEN {[err |-> PickError(r), window |-> r.current_window]}
        ELSE (IF draws /\ r.weights.given /\ ZeroTotalRaises(r.weights.list)
              THEN {[err |-> "ValueError", window |-> r.current_window]}
              ELSE {})
             \cup
             (IF \E t \in ties : TiePitchSets(r, TieHead(r.contents, t)) = {}
              THEN {[err |-> "diverges", window |-> r.current_window]}
              ELSE {[err |-> "none",
                     window |-> [i \in DOMAIN r.contents |->
                                   [r.contents[i] EXCEPT
                                      !.ps = choice[LogicalTieIndex(r.contents, i)]]]] :
                       choice \in {f \in [ties -> SUBSET PoolPitches] :
                                      \A t \in ties :
                                         f[t] \in TiePitchSets(r, TieHead(r.contents, t))}})

\* the randomiser after a call that returned
AfterCall(r, window) ==
    [r EXCEPT !.is_first_window = FALSE,
              !.current_window = window,
              !.calls = IF r.calls < 2 THEN r.calls + 1 ELSE 2,
              !.err = "none"]

\* variant: the first-window flag is not looked at
RandomiseIgnoringFirst(r) ==
    {IF o.err = "none" THEN AfterCall(r, o.window) ELSE [r EXCEPT !.err = o.err] :
        o \in RewritePitches(r)}

\* PitchRandomiser._randomise: the randomisers one call can lead to
Randomise(r) ==
    IF r.is_first_window /\ ~r.processs_on_first_call
    THEN {AfterCall(r, r.current_window)}
    ELSE {IF o.err = "none" THEN AfterCall(r, o.window) ELSE [r EXCEPT !.err = o.err] :
             o \in RewritePitches(r)}

\* PitchRandomiser.output_n: n calls
RECURSIVE RandomiseTimes(_, _)
RandomiseTimes(r, n) ==
    IF n = 0 THEN {r}
    ELSE UNION {IF o.err # "none" THEN {o} ELSE RandomiseTimes(o, n - 1) :
                   o \in Randomise(r)}

OneLeafPitched == {c \in RandomiserContainers : Len(c) = 1}

\* PitchRandomiser.__init__ over short contents
RandomiserInit ==
    /\ FaderAbsent
    /\ hocketer = NoObject
    /\ looper = NoObject
    /\ NoLoops
    /\ \E c \in OneLeafPitched, pool \in Pools, a \in PoolWeightArgs,
          process \in BOOLEAN :
          randomiser = NewRandomiser(c, pool, a, process)

\* the randomiser exists and is not inside a call that never returns
RandomiserIdle == randomiser.built /\ randomiser.err # "diverges"

\* PitchRandomiser.current_window: a copy of the stored window
RandomiserCurrentWindow(r) == r.current_window

\* the randomiser ends operation name as r, having raised e
RandomiserBecomes(name, r, e) ==
    /\ RandomiserIdle
    /\ randomiser' = [r EXCEPT !.op = name, !.err = e]
    /\ seen' = IF name = "current_window"
               THEN [of |-> "randomiser", value |-> RandomiserCurrentWindow(r)]
               ELSE seen
    /\ UNCHANGED <<vars, hocketer, looper, by_notes, by_elements, utility, held>>

\* PitchRandomiser.__call__ and __next__
RandomiserCall ==
    \E o \in Randomise(randomiser) : RandomiserBecomes("call", o, o.err)

\* randomiser.current_window
RandomiserReadWindow == RandomiserBecomes("current_window", randomiser, "none")

\* PitchRandomiser.output_n
RandomiserOutputN ==
    \E n \in 0..MaxN :
        IF n < 1
        THEN RandomiserBecomes("output_n", randomiser, "ValueError")
        ELSE \E o \in RandomiseTimes(randomiser, n) :
                RandomiserBecomes("output_n", o, o.err)

\* PitchRandomiser.contents (setter)
RandomiserSetContents ==
    \E c \in OneLeafPitched :
        RandomiserBecomes("contents", WithContents(randomiser, c), "none")

\* PitchRandomiser.pitches (setter)
RandomiserSetPitches ==
    \E pool \in Pools :
        RandomiserBecomes("pitches", WithPitches(randomiser, pool), "none")

\* PitchRandomiser.weights (setter)
RandomiserSetWeights ==
    \E a \in PoolWeightArgs :
        RandomiserBecomes("weights", WithWeights(randomiser, a),
                          WeightsError(randomiser, a))

\* PitchRandomiser.processs_on_first_call (setter)
RandomiserSetProcessOnFirstCall ==
    \E process \in BOOLEAN :
        RandomiserBecomes("processs_on_first_call",
                          [randomiser EXCEPT !.processs_on_first_call = process],
                          "none")

RandomiserNext ==
    \/ RandomiserCall
    \/ RandomiserOutputN
    \/ RandomiserSetContents
    \/ RandomiserSetPitches
    \/ RandomiserSetWeights
    \/ RandomiserSetProcessOnFirstCall

RandomiserSpec == RandomiserInit /\ [][RandomiserNext]_allvars

\* ---------------------------------------------- rewriting pitches on its own
\* a randomiser built over any container, and called
RandomiserCallInit ==
    /\ FaderAbsent
    /\ hocketer = NoObject
    /\ looper = NoObject
    /\ NoLoops
    /\ \E c \in RandomiserContainers, pool \in Pools, a \in PoolWeightArgs,
          process \in BOOLEAN :
          randomiser = NewRandomiser(c, pool, a, process)

RandomiserCallSpec == RandomiserCallInit /\ [][RandomiserCall]_allvars

\* ------------------------------------------- the draw loop of a chord's pitches
\* Lines 684-695 one draw at a time, over contents of one leaf: pc is
\* "drawing" while the while loop runs, drawn is the list it fills, round
\* the parity of the number of rounds the loop has made.
RandomiserLoopInit ==
    /\ FaderAbsent
    /\ hocketer = NoObject
    /\ looper = NoObject
    /\ NoLoops
    /\ \E c \in OneLeafPitched, pool \in Pools, a \in PoolWeightArgs,
          process \in BOOLEAN :
          /\ NewRandomiser(c, pool, a, process).built
          /\ randomiser = NewRandomiser(c, pool, a, process)
                          @@ [pc |-> "idle", round |-> 0, drawn |-> {}]

\* the call returns with the one leaf rewritten to pitches ps
RandomiserReturns(r, ps) ==
    RandomiserBecomes("call",
                      [AfterCall(r, [r.contents EXCEPT ![1].ps = ps])
                          EXCEPT !.pc = "idle"],
                      "none")

\* the call ends raising e
RandomiserRaises(r, e) ==
    RandomiserBecomes("call", [r EXCEPT !.pc = "idle", !.drawn = {}], e)

\* _pick_random_pitch raises e in a call of r
PickRaises(r, e) ==
    \/ PickError(r) # "none" /\ e = PickError(r)
    \/ /\ PickError(r) = "none"
       /\ r.weights.given
       /\ ZeroTotalRaises(r.weights.list)
       /\ e = "ValueError"

\* _pick_random_pitch gives pitch in a call of r
PickGives(r, pitch) ==
    /\ PickError(r) = "none"
    /\ pitch \in PickablePitches(r)

\* PitchRandomiser.__call__ up to the while loop
RandomiserEntersLoop ==
    LET r    == [randomiser EXCEPT !.drawn = {}]
        head == r.contents[1]
    IN  /\ randomiser.pc = "idle"
        /\ IF r.is_first_window /\ ~r.processs_on_first_call
           THEN RandomiserBecomes("call", AfterCall(r, r.current_window),
                                  "none")
           ELSE IF head.kind = "rest"
           THEN RandomiserReturns(r, {})
           ELSE IF head.kind = "note"
           THEN \/ \E e \in {"IndexError", "ValueError"} :
                      PickRaises(r, e) /\ RandomiserRaises(r, e)
                \/ \E pitch \in PoolPitches :
                      PickGives(r, pitch) /\ RandomiserReturns(r, {pitch})
           ELSE IF Cardinality(head.ps) > Len(r.pitches)
           THEN RandomiserReturns(r, PoolSet(r.pitches))
           ELSE IF Cardinality(head.ps) < 1
           THEN RandomiserReturns(r, {})
           ELSE RandomiserBecomes("call", [r EXCEPT !.pc = "drawing"], "none")

\* a round of the while loop in which _pick_random_pitch raises
RandomiserDrawRaises ==
    /\ randomiser.pc = "drawing"
    /\ \E e \in {"IndexError", "ValueError"} :
          PickRaises(randomiser, e) /\ RandomiserRaises(randomiser, e)

\* a round of the while loop in which pitch is drawn: it is appended unless
\* it is in the list; the loop ends with as many pitches as the chord has
\* note heads
RandomiserDrawsPitch(pitch) ==
    LET drawn == randomiser.drawn \cup {pitch}
        r     == [randomiser EXCEPT !.round = 1 - @, !.drawn = drawn]
    IN  /\ randomiser.pc = "drawing"
        /\ PickGives(randomiser, pitch)
        /\ IF Cardinality(drawn) < Cardinality(r.contents[1].ps)
           THEN RandomiserBecomes("call", r, "none")
           ELSE RandomiserReturns(r, drawn)

RandomiserDraws == \E pitch \in PoolPitches : RandomiserDrawsPitch(pitch)

\* the pool and the weights are assigned between two calls
RandomiserLoopSetPitches ==
    /\ randomiser.pc = "idle"
    /\ RandomiserSetPitches

RandomiserLoopSetWeights ==
    /\ randomiser.pc = "idle"
    /\ RandomiserSetWeights

RandomiserLoopNext ==
    \/ RandomiserEntersLoop
    \/ RandomiserDrawRaises
    \/ RandomiserDraws
    \/ RandomiserLoopSetPitches
    \/ RandomiserLoopSetWeights

\* fair random draws: while the loop runs, every pitch _pick_random_pitch
\* can give is given in the end
RandomiserLoopSpec ==
    /\ RandomiserLoopInit
    /\ [][RandomiserLoopNext]_allvars
    /\ \A pitch \in PoolPitches : WF_allvars(RandomiserDrawsPitch(pitch))

\* --------------------------------------------- the randomiser's Tenney selector
\* The randomiser with its _tenney_selector: tenney is the weights argument
\* the selector holds (NoWeights when it was built or set without weights),
\* use_tenney_selector the flag _pick_random_pitch looks at.

\* TenneySelector(pitch_list): a selector built without weights
NewTenneySelector == NoWeights

\* the weights a weights argument stands for over n pitches: the list, or
\* uniform weights when there is none
WeightsInForce(a, n) == IF a.given THEN a.list ELSE UniformWeights(n)

\* PitchRandomiser.pitches (setter) with the selector: a new selector is built
\* from the pitches; the weights, when dropped, are set to None on it too
TenneyWithPitches(r, pool) ==
    [WithPitches(r, pool) EXCEPT !.tenney = NewTenneySelector]

\* PitchRandomiser.weights (setter) with the selector
TenneyWithWeights(r, a) ==
    IF WeightsError(r, a) = "none"
    THEN [WithWeights(r, a) EXCEPT !.tenney = a]
    ELSE r

\* PitchRandomiser.__init__: contents, pitches, weights, then the flag
TenneyInit ==
    /\ FaderAbsent
    /\ hocketer = NoObject
    /\ looper = NoObject
    /\ NoLoops
    /\ \E c \in OneLeafPitched, pool \in Pools, a \in PoolWeightArgs,
          flag \in BOOLEAN :
          LET r == NewRandomiser(c, pool, a, TRUE)
          IN  /\ r.built
              /\ randomiser = r @@ [tenney |-> a, use_tenney_selector |-> flag]

TenneySetPitches ==
    \E pool \in Pools :
        RandomiserBecomes("pitches", TenneyWithPitches(randomiser, pool),
                          "none")

TenneySetWeights ==
    \E a \in PoolWeightArgs :
        RandomiserBecomes("weights", TenneyWithWeights(randomiser, a),
                          WeightsError(randomiser, a))

\* PitchRandomiser.use_tenney_selector (setter)
SetUseTenneySelector ==
    \E flag \in BOOLEAN :
        RandomiserBecomes("use_tenney_selector",
                          [randomiser EXCEPT !.use_tenney_selector = flag],
                          "none")

TenneyNext ==
    \/ TenneySetPitches
    \/ TenneySetWeights
    \/ SetUseTenneySelector

TenneySpec == TenneyInit /\ [][TenneyNext]_allvars

\* ========================================================= current_window
\* The read-only property current_window of the three transducers, read
\* between their calls.

\* variant: the stored window is handed out, not a copy of it
ReadWindowTaking ==
    /\ op # "absent"
    /\ seen' = [of |-> "fader", value |-> current_window]
    /\ current_window' = NoWindow
    /\ op' = "current_window"
    /\ err' = "none"
    /\ UNCHANGED <<config, mask, is_first_window, new_mask,
                   nret, ops, plain, adv,
                   hocketer, randomiser, looper, by_notes, by_elements,
                   utility, held>>

\* Fader.current_window: a deep copy of the stored window (None before the
\* first call)
ReadWindow ==
    /\ op # "absent"
    /\ seen' = [of |-> "fader", value |-> current_window]
    /\ op' = "current_window"
    /\ err' = "none"
    /\ UNCHANGED <<config, mask, is_first_window, new_mask, current_window,
                   nret, ops, plain, adv,
                   hocketer, randomiser, looper, by_notes, by_elements,
                   utility, held>>

\* one of the three transducers, built
ReadInit ==
    \/ FaderInit
    \/ HocketerInit
    \/ RandomiserInit

\* it is called, and its current_window read, in any order
ReadNext ==
    \/ op # "absent" /\ Call
    \/ ReadWindow
    \/ hocketer # NoObject /\ HocketerCall
    \/ hocketer # NoObject /\ HocketerReadWindow
    \/ randomiser # NoObject /\ RandomiserCall
    \/ randomiser # NoObject /\ RandomiserReadWindow

ReadSpec == ReadInit /\ [][ReadNext]_allvars

\* ============================================================ WindowLooper
\* WindowLooper (src/auxjad/core/WindowLooper.py).  Its durations
\* (head_position, window_size, step_size, the length of contents) are
\* counted in eighth notes, two to the quarter.  The leaves of a window
\* carry their duration in eighths too.  A probability is a percentage.
MaxSize == 4
MaxNotes == 4
MaxWindows == 5
MaxHead == 6

UnitsPerQuarter == 2

\* what a caller may pass as head_position and as step_size
DurationInputs == -1..MaxSize

\* what a caller may pass as window_size
WindowInputs == 1..MaxSize

\* repetition_chance and forward_bias: 0.0, a value in between, 1.0
Chances == {0, 50, 100}

\* the keyword arguments of WindowLooper other than the three durations
LooperOptions ==
    [fill_with_rests : BOOLEAN, processs_on_first_call : BOOLEAN,
     max_steps : 1..MaxSteps, repetition_chance : Chances,
     forward_bias : Chances]

\* the defaults of max_steps, repetition_chance and forward_bias
SteadyOptions ==
    {o \in LooperOptions :
        o.max_steps = 1 /\ o.repetition_chance = 0 /\ o.forward_bias = 100}

\* the defaults of every keyword argument of WindowLooper.__init__
DefaultOptions ==
    [fill_with_rests |-> TRUE, processs_on_first_call |-> FALSE,
     max_steps |-> 1, repetition_chance |-> 0, forward_bias |-> 100]

\* c' d' e' f' ...: n quarter notes of rising pitch
Melody(n) == [i \in 1..n |-> Leaf(i, 1, FALSE)]

Melodies == {Melody(n) : n \in 1..MaxNotes}

\* abjad.inspect(self._contents[:]).duration()
ContentsLength(leaves) ==
    UnitsPerQuarter * SumSeq([i \in DOMAIN leaves |-> leaves[i].d])

\* variant: the quotient is rounded down
CeilingRoundedDown(a, b) == a \div b

\* math.ceil of the fraction a / b, b > 0
Ceiling(a, b) == -((-a) \div b)

\* ceil(self._contents_length / self._step_size), the quotient of the two
\* durations being a fraction with a positive denominator
StepsInContents(l) ==
    IF l.step_size > 0
    THEN Ceiling(l.contents_length, l.step_size)
    ELSE Ceiling(-l.contents_length, -l.step_size)

\* len(looper): the exception raised (a step of zero cannot divide, and
\* len() refuses a negative value) and the value returned
LooperLen(l) ==
    IF l.step_size = 0
    THEN [err |-> "ZeroDivisionError", len |-> l.len]
    ELSE IF StepsInContents(l) < 0
    THEN [err |-> "ValueError", len |-> l.len]
    ELSE [err |-> "none", len |-> StepsInContents(l)]

\* WindowLooper.head_position (setter): what it raises
HeadPositionError(l, head) ==
    IF head >= l.contents_length THEN "ValueError" ELSE "none"

\* WindowLooper.window_size (setter): what it raises
WindowSizeError(l, window) ==
    IF window > l.contents_length - l.head_position THEN "ValueError" ELSE "none"

\* variant: assigning contents puts the head back at the start
LooperWithContentsRewound(l, c) ==
    [l EXCEPT !.contents = c,
              !.contents_length = ContentsLength(c),
              !.head_position = 0,
              !.is_first_window = TRUE]

\* WindowLooper.contents (setter) applied to l
LooperWithContents(l, c) ==
    [l EXCEPT !.contents = c,
              !.contents_length = ContentsLength(c),
              !.is_first_window = TRUE]

\* the offsets, in eighths, at which leaf i of leaves starts and stops
LeafStart(leaves, i) ==
    UnitsPerQuarter * SumSeq([j \in 1..(i - 1) |-> leaves[j].d])

LeafStop(leaves, i) == LeafStart(leaves, i) + UnitsPerQuarter * leaves[i].d

\* how much of leaf i lies between the offsets start and stop
Overlap(leaves, i, start, stop) ==
    LET from == IF LeafStart(leaves, i) > start
                THEN LeafStart(leaves, i) ELSE start
        to   == IF LeafStop(leaves, i) < stop
                THEN LeafStop(leaves, i) ELSE stop
    IN  IF to > from THEN to - from ELSE 0

\* the leaves of contents from head_position on, split at both ends of
\* the window; the tie of the last one is detached
LeavesInWindow(l) ==
    LET leaves == l.contents
        start  == l.head_position
        stop   == l.head_position + l.window_size
        inside == {i \in DOMAIN leaves : Overlap(leaves, i, start, stop) > 0}
        first  == CHOOSE i \in inside : \A j \in inside : i <= j
    IN  [k \in 1..Cardinality(inside) |->
            LET i == first + k - 1
            IN  [p |-> leaves[i].p,
                 d |-> Overlap(leaves, i, start, stop),
                 t |-> leaves[i].t /\ LeafStop(leaves, i) < stop]]

\* variant: a slice shorter than the window is left as short as it is
SliceContentsUnpadded(l) == LeavesInWindow(l)

\* WindowLooper._slice_contents: a slice shorter than the window is
\* completed with a rest, whatever fill_with_rests says
SliceContents(l) ==
    LET kept    == LeavesInWindow(l)
        missing == l.window_size - SumSeq([k \in DOMAIN kept |-> kept[k].d])
    IN  IF missing > 0
        THEN kept \o << [p |-> 0, d |-> missing, t |-> FALSE] >>
        ELSE kept

\* WindowLooper._done
LooperDone(l) ==
    IF l.fill_with_rests
    THEN l.head_position >= l.contents_length \/ l.head_position < 0
    ELSE \/ l.head_position >= l.contents_length - l.head_position
         \/ l.head_position < 0

\* the steps one move can add up to: between 1 and max_steps steps, each
\* forwards or backwards as forward_bias allows
NetSteps(l) ==
    {x[1] - 2 * x[2] :
        x \in {y \in (1..l.max_steps) \X (0..l.max_steps) :
                  /\ y[2] <= y[1]
                  /\ y[2] = 0 \/ l.forward_bias < 100
                  /\ y[2] = y[1] \/ l.forward_bias > 0}}

\* _LooperParent._move_head: where the head may be after it
HeadsAfterMove(l) ==
    IF l.is_first_window /\ ~l.processs_on_first_call
    THEN {l.head_position}
    ELSE (IF l.repetition_chance > 0 THEN {l.head_position} ELSE {})
         \cup (IF l.repetition_chance < 100
               THEN {l.head_position + k * l.step_size : k \in NetSteps(l)}
               ELSE {})

\* _LooperParent.__call__ and __next__: the head moves, then either the
\* process is done and the call raises exhausted, or the window is sliced
LooperAdvance(l, exhausted) ==
    {LET m == [l EXCEPT !.head_position = h, !.is_first_window = FALSE]
     IN  IF LooperDone(m)
         THEN [m EXCEPT !.err = exhausted]
         ELSE [m EXCEPT !.window = SliceContents(m),
                        !.emitted = @ + 1,
                        !.err = "none"] :
     h \in HeadsAfterMove(l)}

\* _LooperParent.__init__: head_position, window_size and step_size are
\* assigned in this order through the setters of WindowLooper
LooperParentInit(l, head, window, step) ==
    LET e1 == HeadPositionError(l, head)
        l1 == [l EXCEPT !.head_position = head]
        e2 == WindowSizeError(l1, window)
    IN  IF e1 # "none" THEN [l EXCEPT !.built = FALSE, !.err = e1]
        ELSE IF e2 # "none" THEN [l1 EXCEPT !.built = FALSE, !.err = e2]
        ELSE [l1 EXCEPT !.window_size = window, !.step_size = step]

\* WindowLooper.__init__; len is the value the last len(looper) returned,
\* window the window the last operation returned (_current_window as the
\* call that sliced it hands it out, NoWindow after any other operation)
\* and emitted the number of windows returned so far
NewLooper(c, head, window, step, o) ==
    LooperParentInit([built |-> TRUE, contents |-> c,
                      contents_length |-> ContentsLength(c),
                      is_first_window |-> TRUE,
                      head_position |-> 0, window_size |-> 0, step_size |-> 0,
                      fill_with_rests |-> o.fill_with_rests,
                      processs_on_first_call |-> o.processs_on_first_call,
                      max_steps |-> o.max_steps,
                      repetition_chance |-> o.repetition_chance,
                      forward_bias |-> o.forward_bias,
                      window |-> NoWindow, emitted |-> 0,
                      len |-> 0, op |-> "init", err |-> "none"],
                     head, window, step)

LooperInit ==
    /\ FaderAbsent
    /\ hocketer = NoObject
    /\ randomiser = NoObject
    /\ NoLoops
    /\ \E c \in Containers, head \in DurationInputs, window \in WindowInputs,
          step \in DurationInputs :
          looper = NewLooper(c, head, window, step, DefaultOptions)

\* the looper ends operation name as l, having raised e
LooperBecomes(name, l, e) ==
    /\ looper.built
    /\ looper' = [l EXCEPT !.op = name, !.err = e,
                            !.window = IF name \in {"call", "next"} /\ e = "none"
                                       THEN @ ELSE NoWindow]
    /\ UNCHANGED <<vars, hocketer, randomiser, by_notes, by_elements, seen, utility, held>>

\* a looper that has not yet returned MaxWindows windows nor moved its
\* head further than MaxHead from the start of contents
LooperInReach ==
    /\ looper.built
    /\ looper.emitted < MaxWindows
    /\ looper.head_position \in -MaxHead..MaxHead

\* looper()
LooperCall ==
    /\ LooperInReach
    /\ \E m \in LooperAdvance(looper, "RuntimeError") :
          LooperBecomes("call", m, m.err)

\* next(looper)
LooperNextWindow ==
    /\ LooperInReach
    /\ \E m \in LooperAdvance(looper, "StopIteration") :
          LooperBecomes("next", m, m.err)

\* len(looper)
LooperLength ==
    LooperBecomes("len", [looper EXCEPT !.len = LooperLen(looper).len],
                  LooperLen(looper).err)

\* WindowLooper.contents (setter), a container of one leaf assigned
LooperSetOneLeaf ==
    \E c \in OneLeafContainers :
        LooperBecomes("contents", LooperWithContents(looper, c), "none")

\* WindowLooper.contents (setter)
LooperSetContents ==
    \E c \in Containers :
        LooperBecomes("contents", LooperWithContents(looper, c), "none")

\* variant: assigning head_position leaves the first-window flag alone
LooperSetHeadPositionKeepingFlag ==
    \E head \in DurationInputs :
        IF HeadPositionError(looper, head) # "none"
        THEN LooperBecomes("head_position", looper, HeadPositionError(looper, head))
        ELSE LooperBecomes("head_position",
                           [looper EXCEPT !.head_position = head], "none")

\* WindowLooper.head_position (setter)
LooperSetHeadPosition ==
    \E head \in DurationInputs :
        IF HeadPositionError(looper, head) # "none"
        THEN LooperBecomes("head_position", looper, HeadPositionError(looper, head))
        ELSE LooperBecomes("head_position",
                           [looper EXCEPT !.head_position = head,
                                          !.is_first_window = TRUE],
                           "none")

\* variant: assigning window_size sets the first-window flag
LooperSetWindowSizeRestarting ==
    \E window \in WindowInputs :
        IF WindowSizeError(looper, window) # "none"
        THEN LooperBecomes("window_size", looper, WindowSizeError(looper, window))
        ELSE LooperBecomes("window_size",
                           [looper EXCEPT !.window_size = window,
                                          !.is_first_window = TRUE],
                           "none")

\* WindowLooper.window_size (setter)
LooperSetWindowSize ==
    \E window \in WindowInputs :
        IF WindowSizeError(looper, window) # "none"
        THEN LooperBecomes("window_size", looper, WindowSizeError(looper, window))
        ELSE LooperBecomes("window_size", [looper EXCEPT !.window_size = window],
                           "none")

\* WindowLooper.step_size (setter)
LooperSetStepSize ==
    \E step \in DurationInputs :
        LooperBecomes("step_size", [looper EXCEPT !.step_size = step], "none")

\* WindowLooper.fill_with_rests (setter)
LooperSetFillWithRests ==
    \E fill \in BOOLEAN :
        LooperBecomes("fill_with_rests",
                      [looper EXCEPT !.fill_with_rests = fill], "none")

LooperNext ==
    \/ LooperLength
    \/ LooperSetContents
    \/ LooperSetHeadPosition
    \/ LooperSetWindowSize
    \/ LooperSetStepSize
    \/ LooperSetFillWithRests

LooperSpec == LooperInit /\ [][LooperNext]_allvars

\* the loopers that are only called: containers and melodies of up to
\* MaxNotes notes walked through steadily, one-leaf containers walked
\* through with every max_steps, repetition_chance and forward_bias
LooperCallInit ==
    /\ FaderAbsent
    /\ hocketer = NoObject
    /\ randomiser = NoObject
    /\ NoLoops
    /\ \E c \in Containers \cup Melodies, head \in DurationInputs,
          window \in WindowInputs, step \in 1..MaxSize, o \in LooperOptions :
          /\ o \in SteadyOptions \/ Len(c) = 1
          /\ looper = NewLooper(c, head, window, step, o)

LooperCallNext ==
    \/ LooperCall
    \/ LooperNextWindow

LooperCallSpec == LooperCallInit /\ [][LooperCallNext]_allvars

\* the loopers over one leaf that are called between assignments to
\* contents, head_position, window_size and step_size
LooperSessionInit ==
    /\ FaderAbsent
    /\ hocketer = NoObject
    /\ randomiser = NoObject
    /\ NoLoops
    /\ \E c \in OneLeafContainers, head \in DurationInputs,
          window \in WindowInputs, step \in 1..MaxSize, o \in SteadyOptions :
          looper = NewLooper(c, head, window, step, o)

LooperSessionNext ==
    \/ LooperCall
    \/ LooperNextWindow
    \/ LooperSetOneLeaf
    \/ LooperSetHeadPosition
    \/ LooperSetWindowSize
    \/ LooperSetStepSize

LooperSessionSpec == LooperSessionInit /\ [][LooperSessionNext]_allvars

\* ============================================================= LoopByNotes
\* LoopByNotes (src/auxjad/core/LoopByNotes.py): head_position and
\* window_size count logical ties, the first logical tie being number 0.
\* A time signature is a pair <<numerator, denominator>>.

NoTimeSignature == <<>>

\* the smallest denominator simplified_time_signature_ratio writes
MinDenominator == 4

RECURSIVE GCD(_, _)
GCD(a, b) == IF b = 0 THEN a ELSE GCD(b, a % b)

\* abjad.TimeSignature(duration), the duration being a number of quarter
\* notes: the fraction in lowest terms
TimeSignatureOf(quarters) ==
    << quarters \div GCD(quarters, 4), 4 \div GCD(quarters, 4) >>

\* simplified_time_signature_ratio: the ratio in lowest terms, its
\* denominator not below MinDenominator
SimplifiedTimeSignatureRatio(ts) ==
    LET g == GCD(ts[1], ts[2])
        n == ts[1] \div g
        d == ts[2] \div g
    IN  IF d < MinDenominator
        THEN << n * (MinDenominator \div d), MinDenominator >>
        ELSE << n, d >>

\* what a caller may pass as window_size of a LoopByNotes
CountInputs == 1..MaxSize

\* what head_position may be
IndexInputs == 0..MaxSize

\* list[start:end] for 0 <= start <= end, on a list of n items numbered
\* from 1: the numbers of the items taken
PythonSlice(n, start, end) ==
    {k \in 1..n : start < k /\ k <= end}

\* the logical ties of the window: _contents_logical_ties[start:end]
TiesInWindow(b) ==
    PythonSlice(Cardinality(LogicalTies(b.contents)),
                b.head_position, b.head_position + b.window_size)

\* the leaves of these logical ties, in the order of contents
LeavesOfTies(leaves, ties) ==
    LET inside == {i \in DOMAIN leaves : LogicalTieIndex(leaves, i) \in ties}
        first  == CHOOSE i \in inside : \A j \in inside : i <= j
    IN  [k \in 1..Cardinality(inside) |-> leaves[first + k - 1]]

\* variant: a slice of fewer than window_size logical ties is completed
\* with quarter rests
ByNotesWindowPadded(b) ==
    LeavesOfTies(b.contents, TiesInWindow(b))
    \o [k \in 1..(b.window_size - Cardinality(TiesInWindow(b))) |->
           Leaf(0, 1, FALSE)]

\* LoopByNotes._slice_contents: the leaves put into the window
ByNotesWindow(b) == LeavesOfTies(b.contents, TiesInWindow(b))

\* LoopByNotes._slice_contents: the time signature attached to the first
\* leaf of the window, if there is one
ByNotesTimeSignature(b) ==
    IF TiesInWindow(b) = {}
    THEN NoTimeSignature
    ELSE SimplifiedTimeSignatureRatio(
             TimeSignatureOf(SumSeq([k \in DOMAIN ByNotesWindow(b) |->
                                        ByNotesWindow(b)[k].d])))

\* LoopByNotes.__init__: len is the value the last len(looper) returned;
\* the head is inside contents
NewByNotes(c, head, window) ==
    [contents |-> c, head_position |-> head, window_size |-> window,
     is_first_window |-> TRUE,
     current_window |-> NoWindow, time_signature |-> NoTimeSignature,
     len |-> 0, op |-> "init"]

ByNotesInit ==
    /\ FaderAbsent
    /\ hocketer = NoObject
    /\ randomiser = NoObject
    /\ looper = NoObject
    /\ by_elements = NoObject
    /\ seen = NoRead
    /\ utility = NoObject
    /\ held = NoRead
    /\ \E c \in Containers \cup Melodies, head \in IndexInputs,
          window \in CountInputs :
          /\ head < Cardinality(LogicalTies(c))
          /\ by_notes = NewByNotes(c, head, window)

\* the LoopByNotes ends operation name as b
ByNotesBecomes(name, b) ==
    /\ by_notes' = [b EXCEPT !.op = name]
    /\ UNCHANGED <<vars, hocketer, randomiser, looper, by_elements, seen, utility, held>>

\* LoopByNotes._slice_contents
ByNotesSliceContents ==
    ByNotesBecomes("slice",
                   [by_notes EXCEPT
                       !.current_window = ByNotesWindow(by_notes),
                       !.time_signature = ByNotesTimeSignature(by_notes)])

\* LoopByNotes.contents (setter)
ByNotesSetContents ==
    \E c \in Containers \cup Melodies :
        ByNotesBecomes("contents",
                       [by_notes EXCEPT !.contents = c,
                                        !.is_first_window = TRUE])

\* len(looper)
ByNotesLength ==
    ByNotesBecomes("len",
                   [by_notes EXCEPT
                       !.len = Cardinality(LogicalTies(by_notes.contents))])

ByNotesNext ==
    \/ ByNotesSliceContents
    \/ ByNotesSetContents
    \/ ByNotesLength

ByNotesSpec == ByNotesInit /\ [][ByNotesNext]_allvars

\* ==================================================== LoopWindowByElements
\* LoopWindowByElements (src/auxjad/core/LoopWindowByElements.py): the
\* container is a list of logical ties, head_position and window_size count
\* them. last_time_signature is _last_time_signature, NoTimeSignature
\* standing for None. time_signature is what the window carries on its
\* first leaf. derived is the time signature worth the latest window
\* returned, in_effect the one worth the latest window returned while
\* omit_all_time_signatures was False.

\* the time signature worth the window of b
ByElementsDerived(b) ==
    SimplifiedTimeSignatureRatio(
        TimeSignatureOf(SumSeq([k \in DOMAIN ByNotesWindow(b) |->
                                   ByNotesWindow(b)[k].d])))

\* variant: the time signature of every window is recorded, also when it
\* is omitted
ByElementsRecordedAlways(b) ==
    IF TiesInWindow(b) # {}
    THEN ByElementsDerived(b)
    ELSE b.last_time_signature

\* LoopWindowByElements._slice_container: the new _last_time_signature
ByElementsRecorded(b) ==
    IF TiesInWindow(b) # {} /\ ~b.omit_all_time_signatures
    THEN ByElementsDerived(b)
    ELSE b.last_time_signature

\* LoopWindowByElements._slice_container: the time signature attached
ByElementsAttached(b) ==
    IF /\ TiesInWindow(b) # {}
       /\ ~b.omit_all_time_signatures
       /\ \/ ByElementsDerived(b) # b.last_time_signature
          \/ b.force_identical_time_signatures
    THEN ByElementsDerived(b)
    ELSE NoTimeSignature

\* LoopWindowByElements._slice_container
SliceContainer(b) ==
    [b EXCEPT !.current_window = ByNotesWindow(b),
              !.time_signature = ByElementsAttached(b),
              !.last_time_signature = ByElementsRecorded(b),
              !.derived = ByElementsDerived(b),
              !.in_effect = IF b.omit_all_time_signatures
                            THEN b.in_effect
                            ELSE ByElementsDerived(b)]

\* LoopWindowByElements.__init__
NewByElements(c, head, window, omit, force) ==
    [contents |-> c, head_position |-> head, window_size |-> window,
     step_size |-> 1, is_first_window |-> TRUE,
     omit_all_time_signatures |-> omit,
     force_identical_time_signatures |-> force,
     last_time_signature |-> NoTimeSignature,
     current_window |-> NoWindow, time_signature |-> NoTimeSignature,
     derived |-> NoTimeSignature, in_effect |-> NoTimeSignature,
     op |-> "init", err |-> "none"]

ByElementsInit ==
    /\ FaderAbsent
    /\ hocketer = NoObject
    /\ randomiser = NoObject
    /\ looper = NoObject
    /\ by_notes = NoObject
    /\ seen = NoRead
    /\ utility = NoObject
    /\ held = NoRead
    /\ \E c \in Containers \cup Melodies, head \in IndexInputs,
          window \in CountInputs, omit \in BOOLEAN, force \in BOOLEAN :
          /\ head < Cardinality(LogicalTies(c))
          /\ by_elements = NewByElements(c, head, window, omit, force)

\* the LoopWindowByElements ends operation name as b, with outcome e
ByElementsBecomes(name, b, e) ==
    /\ by_elements' = [b EXCEPT !.op = name, !.err = e]
    /\ UNCHANGED <<vars, hocketer, randomiser, looper, by_notes, seen, utility, held>>

\* the head after the move of one call: none on the first call, one
\* step_size forwards on the others
ByElementsMoved(b) ==
    [b EXCEPT !.head_position = IF b.is_first_window
                                THEN b.head_position
                                ELSE b.head_position + b.step_size,
              !.is_first_window = FALSE]

\* looper(): the move, then the window unless the head left the container
ByElementsCall ==
    LET b == ByElementsMoved(by_elements)
    IN  IF b.head_position >= Cardinality(LogicalTies(b.contents))
        THEN ByElementsBecomes("call", by_elements, "exhausted")
        ELSE ByElementsBecomes("call", SliceContainer(b), "none")

\* LoopWindowByElements.omit_all_time_signatures (setter)
ByElementsSetOmitAllTimeSignatures ==
    \E omit \in BOOLEAN :
        ByElementsBecomes("omit_all_time_signatures",
                          [by_elements EXCEPT
                              !.omit_all_time_signatures = omit],
                          "none")

\* LoopWindowByElements.force_identical_time_signatures (setter)
ByElementsSetForceIdenticalTimeSignatures ==
    \E force \in BOOLEAN :
        ByElementsBecomes("force_identical_time_signatures",
                          [by_elements EXCEPT
                              !.force_identical_time_signatures = force],
                          "none")

ByElementsNext ==
    \/ ByElementsCall
    \/ ByElementsSetOmitAllTimeSignatures
    \/ ByElementsSetForceIdenticalTimeSignatures

ByElementsSpec == ByElementsInit /\ [][ByElementsNext]_allvars

\* ============================================================ auxjad.mutate
\* The functions of auxjad that are no transducers (utility holds the
\* latest call of one of them).

\* no transducer exists
NoTransducer ==
    /\ FaderAbsent
    /\ hocketer = NoObject
    /\ randomiser = NoObject
    /\ looper = NoObject
    /\ by_notes = NoObject
    /\ by_elements = NoObject
    /\ seen = NoRead
    /\ held = NoRead

\* the call u of a function of auxjad has been made
UtilityBecomes(u) ==
    /\ utility' = u
    /\ UNCHANGED <<vars, hocketer, randomiser, looper, by_notes, by_elements,
                   seen, held>>

\* src/auxjad/utilities/mutate.py: the methods of Mutation, each of them
\* also patched onto abjad.Mutation
MethodNames ==
    {"auto_rewrite_meter", "close_container", "enforce_time_signature",
     "extract_trivial_tuplets", "fill_with_rests", "prettify_rewrite_meter",
     "remove_repeated_dynamics", "remove_repeated_time_signatures",
     "reposition_clefs", "reposition_dynamics", "reposition_slurs",
     "respell_accidentals", "rests_to_multimeasure_rest", "sustain_notes",
     "sync_containers"}

\* the arguments that have no default: the caller gives them
RequiredArguments(name) ==
    CASE name = "enforce_time_signature" -> {"time_signatures"}
      [] name = "prettify_rewrite_meter" -> {"meter"}
      [] OTHER -> {}

\* what the caller gives for a required argument
GivenValues == {"given"}

\* the keywords the two signatures share, with the defaults both have
SharedDefaults(name) ==
    CASE name = "auto_rewrite_meter" ->
             [meter_list |-> "None", prettify |-> TRUE,
              extract_trivial_tuplets |-> TRUE]
      [] name = "enforce_time_signature" ->
             [disable_rewrite_meter |-> FALSE,
              fill_with_rests |-> TRUE,
              cyclic |-> FALSE,
              close_container |-> FALSE,
              boundary_depth |-> "None",
              maximum_dot_count |-> "None",
              rewrite_tuplets |-> TRUE]
      [] name = "fill_with_rests" -> [disable_rewrite_meter |-> FALSE]
      [] name = "prettify_rewrite_meter" ->
             [extract_trivial_tuplets |-> TRUE,
              fuse_across_groups_of_beats |-> TRUE,
              fuse_quadruple_meter |-> TRUE,
              fuse_triple_meter |-> TRUE]
      [] name = "remove_repeated_dynamics" ->
             [ignore_hairpins |-> FALSE, reset_after_rests |-> FALSE]
      [] name = "reposition_clefs" ->
             [shift_clef_to_notes |-> TRUE, implicit_clef |-> "treble"]
      [] name = "reposition_dynamics" ->
             [allow_hairpins_under_rests |-> FALSE,
              check_hairpin_trends |-> TRUE,
              remove_repeated_dynamics |-> TRUE,
              allow_hairpin_to_rest_with_dynamic |-> TRUE]
      [] name = "respell_accidentals" ->
             [include_multiples |-> FALSE, respell_by_pitch_class |-> FALSE]
      [] name = "sync_containers" ->
             [use_multimeasure_rests |-> TRUE,
              adjust_last_time_signature |-> TRUE]
      [] OTHER -> [k \in {} |-> FALSE]

\* the keyword defaults of the methods of Mutation (lines 65-212)
MethodDefaults(name) ==
    IF name = "reposition_slurs"
    THEN [allow_slurs_under_rests |-> FALSE,
          remove_unterminated_slurs |-> TRUE]
    ELSE SharedDefaults(name)

\* the keyword defaults of the extension functions (lines 254-433)
ExtensionDefaults(name) ==
    IF name = "reposition_slurs"
    THEN [allow_slurs_under_rests |-> FALSE,
          remove_unterminated_slurs |-> FALSE]
    ELSE SharedDefaults(name)

\* what a method called with no keyword forwards: the function of the same
\* name is called on the client with the required arguments and every
\* keyword at its default
Forwarded(name, client, given, defaults) ==
    [client |-> client,
     function |-> name,
     required |-> [a \in RequiredArguments(name) |-> given],
     keywords |-> defaults]

\* the clients: selections or components
Clients == Containers

\* auxjad.mutate(client).name(...)
AuxjadMutate ==
    \E name \in MethodNames, client \in Clients, given \in GivenValues :
        UtilityBecomes([of |-> "mutate",
                        given |-> given,
                        client |-> client,
                        via |-> "auxjad",
                        method |-> name,
                        call |-> Forwarded(name, client, given,
                                           MethodDefaults(name))])

\* abjad.mutate(client).name(...)
AbjadMutate ==
    \E name \in MethodNames, client \in Clients, given \in GivenValues :
        UtilityBecomes([of |-> "mutate",
                        given |-> given,
                        client |-> client,
                        via |-> "abjad",
                        method |-> name,
                        call |-> Forwarded(name, client, given,
                                           ExtensionDefaults(name))])

MutateInit ==
    /\ NoTransducer
    /\ utility = NoObject

MutateNext ==
    \/ AuxjadMutate
    \/ AbjadMutate

MutateSpec == MutateInit /\ [][MutateNext]_allvars

\* ================================================= auxjad.leaves_are_tieable
\* src/auxjad/inspections/leaves_are_tieable.py.  A leaf given to it is a
\* record [kind |-> "rest", "multimeasure_rest", "note" or "chord",
\* ps |-> the set of its written pitches, d |-> its written duration,
\* grace |-> a grace container is attached before it].
TieableLeaves ==
    [kind : {"rest", "multimeasure_rest"}, ps : {{}}, d : RenderDurations,
     grace : {FALSE}]
    \cup [kind : {"note"}, ps : {{1}, {2}}, d : RenderDurations,
          grace : BOOLEAN]
    \cup [kind : {"chord"}, ps : {{1, 2}, {1, 2, 3}}, d : RenderDurations,
          grace : BOOLEAN]

\* the body of the loop: the pair leaf1, leaf2 makes the function return
\* False
PairNotTieable(leaf1, leaf2) ==
    \/ leaf1.kind # leaf2.kind
    \/ leaf1.kind = "rest"
    \/ leaf1.kind = "multimeasure_rest"
    \/ leaf1.kind = "note" /\ leaf1.ps # leaf2.ps
    \/ leaf1.kind = "chord" /\ leaf1.ps # leaf2.ps
    \/ leaf1.grace # leaf2.grace

\* leaves_are_tieable(leaves), leaves being a list of leaves
TieableInList(leaves) ==
    \A i \in 1..(Len(leaves) - 1) :
        \A j \in (i + 1)..Len(leaves) : ~PairNotTieable(leaves[i], leaves[j])

\* an argument of a call: a leaf, or a list of leaves
OneLeaf(leaf) == [leaves |-> <<leaf>>,
                  iterable |-> FALSE]

ListOfLeaves(leaves) == [leaves |-> leaves,
                         iterable |-> TRUE]

\* the call leaves_are_tieable(*args): the function has one parameter,
\* which must be a selection or an iterable
LeavesAreTieable(args) ==
    IF Len(args) # 1 THEN "TypeError"
    ELSE IF ~args[1].iterable THEN "TypeError"
    ELSE IF TieableInList(args[1].leaves) THEN "True"
    ELSE "False"

\* leaves_are_tieable(leaf1, leaf2), leaves_are_tieable([leaf1, leaf2]) or
\* leaves_are_tieable(leaf1)
CallLeavesAreTieable ==
    \E leaf1 \in TieableLeaves, leaf2 \in TieableLeaves :
        \E args \in {<<OneLeaf(leaf1), OneLeaf(leaf2)>>,
                     <<ListOfLeaves(<<leaf1, leaf2>>)>>,
                     <<OneLeaf(leaf1)>>} :
            UtilityBecomes([of |-> "leaves_are_tieable", args |-> args,
                            result |-> LeavesAreTieable(args)])

TieableInit ==
    /\ NoTransducer
    /\ utility = NoObject

TieableSpec == TieableInit /\ [][CallLeavesAreTieable]_allvars

\* =================================================== auxjad.repeat_container
\* src/auxjad/utilities/repeat_container.py: the functions it applies to
\* the output container after the n copies are joined, in this order
\* (its arguments: force_identical_time_signatures, reposition_clefs,
\* reposition_dynamics, reposition_slurs, omit_time_signatures)
RepeatPasses(force_identical, clefs, dynamics, slurs, omit) ==
    (IF ~force_identical THEN <<"remove_repeated_time_signatures">> ELSE <<>>)
    \o (IF clefs THEN <<"reposition_clefs">> ELSE <<>>)
    \o (IF clefs THEN <<"reposition_dynamics">> ELSE <<>>)
    \o (IF clefs THEN <<"reposition_slurs">> ELSE <<>>)
    \o (IF omit THEN <<"detach_time_signatures">> ELSE <<>>)

\* n copies of the leaves of a container
RECURSIVE Repeated(_, _)
Repeated(leaves, n) ==
    IF n <= 1 THEN leaves ELSE leaves \o Repeated(leaves, n - 1)

\* repeat_container(container, n, ...)
RepeatContainer ==
    \E c \in Containers, n \in 1..MaxN, omit \in BOOLEAN, force \in BOOLEAN,
       clefs \in BOOLEAN, dynamics \in BOOLEAN, slurs \in BOOLEAN :
        UtilityBecomes([leaves |-> Repeated(c, n),
                        of |-> "repeat_container",
                        force_identical_time_signatures |-> force,
                        omit_time_signatures |-> omit,
                        reposition_clefs |-> clefs,
                        reposition_dynamics |-> dynamics,
                        reposition_slurs |-> slurs,
                        passes |-> RepeatPasses(force, clefs, dynamics,
                                                slurs, omit)])

RepeatInit ==
    /\ NoTransducer
    /\ utility = NoObject

RepeatSpec == RepeatInit /\ [][RepeatContainer]_allvars

\* =================================================== auxjad.reposition_slurs
\* src/auxjad/utilities/reposition_slurs.py.  A leaf given to it is a record
\* [rest |-> it is a rest or a multi-measure rest,
\*  start |-> a StartSlur is attached to it,
\*  stop |-> a StopSlur is attached to it].
MaxSlurred == 4

SlurredLeaves == [rest : BOOLEAN, start : BOOLEAN, stop : BOOLEAN]

\* the slurs of leaves i.. are well nested, open telling whether a slur is
\* running before leaf i: every StartSlur is followed by its StopSlur on a
\* later leaf before the next StartSlur, and no leaf carries both
RECURSIVE WellNestedFrom(_, _, _)
WellNestedFrom(leaves, i, open) ==
    IF i > Len(leaves) THEN ~open
    ELSE /\ ~(leaves[i].start /\ leaves[i].stop)
         /\ leaves[i].start => ~open
         /\ leaves[i].stop => open
         /\ WellNestedFrom(leaves, i + 1,
                           IF leaves[i].start THEN TRUE
                           ELSE IF leaves[i].stop THEN FALSE
                           ELSE open)

\* the containers given to reposition_slurs
SlurredContainers ==
    {s \in UNION {[1..n -> SlurredLeaves] : n \in 1..MaxSlurred} :
        WellNestedFrom(s, 1, FALSE)}

\* the first loop from leaf i on: a StartSlur on a rest is detached and
\* attached to the next pitched leaf that has none
RECURSIVE ShiftStartSlurs(_, _, _)
ShiftStartSlurs(leaves, i, shifted) ==
    IF i > Len(leaves) THEN leaves
    ELSE IF leaves[i].rest
    THEN IF leaves[i].start
         THEN ShiftStartSlurs([leaves EXCEPT ![i].start = FALSE], i + 1, TRUE)
         ELSE ShiftStartSlurs(leaves, i + 1, shifted)
    ELSE IF ~leaves[i].start /\ shifted
         THEN ShiftStartSlurs([leaves EXCEPT ![i].start = TRUE], i + 1, FALSE)
         ELSE ShiftStartSlurs(leaves, i + 1, shifted)

\* the second loop, from leaf i back: a StopSlur on a rest is detached and
\* attached to the previous pitched leaf that has none
RECURSIVE ShiftStopSlurs(_, _, _)
ShiftStopSlurs(leaves, i, shifted) ==
    IF i < 1 THEN leaves
    ELSE IF leaves[i].rest
    THEN IF leaves[i].stop
         THEN ShiftStopSlurs([leaves EXCEPT ![i].stop = FALSE], i - 1, TRUE)
         ELSE ShiftStopSlurs(leaves, i - 1, shifted)
    ELSE IF ~leaves[i].stop /\ shifted
         THEN ShiftStopSlurs([leaves EXCEPT ![i].stop = TRUE], i - 1, FALSE)
         ELSE ShiftStopSlurs(leaves, i - 1, shifted)

\* the first leaf after leaf n that is no rest (0 if there is none)
NextPitched(leaves, n) ==
    IF \E j \in (n + 1)..Len(leaves) : ~leaves[j].rest
    THEN CHOOSE j \in (n + 1)..Len(leaves) :
             /\ ~leaves[j].rest
             /\ \A k \in (n + 1)..(j - 1) : leaves[k].rest
    ELSE 0

\* the inner loop: StartSlur is attached to the next pitched leaf unless it
\* has one
WithStartOnNextPitched(leaves, n) ==
    LET j == NextPitched(leaves, n)
    IN  IF j # 0 /\ ~leaves[j].start
        THEN [leaves EXCEPT ![j].start = TRUE]
        ELSE leaves

\* the third loop, from leaf n on: under a running slur, each
\* rest has StopSlur attached to the leaf before it and StartSlur to the
\* next pitched leaf; attaching a second StopSlur to a leaf fails
RECURSIVE BreakSlursAtRests(_, _, _)
BreakSlursAtRests(leaves, n, active) ==
    IF n > Len(leaves) THEN [leaves |-> leaves, raised |-> FALSE]
    ELSE LET now == IF leaves[n].start THEN TRUE
                    ELSE IF leaves[n].stop THEN FALSE
                    ELSE active
             previous == IF n = 1 THEN 1 ELSE n - 1
         IN  IF leaves[n].rest /\ now
             THEN IF leaves[previous].stop
                  THEN [leaves |-> leaves, raised |-> TRUE]
                  ELSE BreakSlursAtRests(
                           WithStartOnNextPitched(
                               [leaves EXCEPT ![previous].stop = TRUE], n),
                           n + 1, now)
             ELSE BreakSlursAtRests(leaves, n + 1, now)

\* the last loop: a leaf with both StartSlur and StopSlur loses both
WithoutOneLeafSlurs(leaves) ==
    [i \in DOMAIN leaves |->
        IF leaves[i].start /\ leaves[i].stop
        THEN [leaves[i] EXCEPT !.start = FALSE, !.stop = FALSE]
        ELSE leaves[i]]

\* reposition_slurs(container, allow_slurs_under_rests=allow): the leaves
\* it leaves in the container, and whether it raised
RepositionSlurs(container, allow) ==
    LET shifted == ShiftStopSlurs(ShiftStartSlurs(container, 1, FALSE),
                                  Len(container), FALSE)
        broken  == BreakSlursAtRests(shifted, 1, FALSE)
    IN  IF allow THEN [leaves |-> shifted, raised |-> FALSE]
        ELSE IF broken.raised THEN broken
        ELSE [leaves |-> WithoutOneLeafSlurs(broken.leaves),
              raised |-> FALSE]

\* a call of reposition_slurs
CallRepositionSlurs ==
    \E c \in SlurredContainers, allow \in BOOLEAN :
        UtilityBecomes([leaves |-> RepositionSlurs(c, allow).leaves,
                        of |-> "reposition_slurs",
                        raised |-> RepositionSlurs(c, allow).raised,
                        allow_slurs_under_rests |-> allow,
                        container |-> c])

SlursInit ==
    /\ NoTransducer
    /\ utility = NoObject

SlursSpec == SlursInit /\ [][CallRepositionSlurs]_allvars

\* ================================================================ claims
\* the elements at which two masks of the same length differ
Flipped(m1, m2) == {i \in DOMAIN m1 : m1[i] # m2[i]}

Calling == {"call", "next", "output_n", "output_all"}

\* a step that is a call taking the first branch of __call__
AdvancingCall ==
    /\ op' \in {"call", "next"}
    /\ err' # "StopIteration"
    /\ ~is_first_window
    /\ ~new_mask

\* C1: in every reachable state the mask has one element per pitched
\* logical tie of contents, and every element is 0 or 1
C1_MaskMatchesContents ==
    /\ Len(mask) = Cardinality({i \in DOMAIN contents : IsTieHead(contents, i)})
    /\ \A i \in DOMAIN mask : mask[i] \in {0, 1}

\* reached: a rejected mask assignment on a fader whose mask is half faded
C1_Witness ==
    /\ op = "mask"
    /\ err = "ValueError"
    /\ Len(mask) = 2
    /\ mask[1] # mask[2]

\* C2: over any calling operation, failed or not, the sum of the mask does
\* not increase for a fade-out and does not decrease for a fade-in
C2_MaskMonotonic ==
    [][op' \in Calling =>
          /\ Len(mask') = Len(mask)
          /\ fader_type = "out" => SumSeq(mask') <= SumSeq(mask)
          /\ fader_type = "in" => SumSeq(mask') >= SumSeq(mask)]_vars

\* reached: a fade-in call that added the last element and then failed
C2_Witness ==
    /\ op = "call"
    /\ err = "RuntimeError"
    /\ fader_type = "in"
    /\ max_steps >= 2
    /\ Len(mask) >= 1
    /\ SumSeq(mask) = Len(mask)

\* C3 as stated: the first call of a fader built with
\* fade_on_first_call=False renders the initial mask and keeps it; the first
\* call of one built with fade_on_first_call=True flips at least one element
\* and renders
C3_FirstCallAsStated ==
    [][ops = 0 /\ op' = "call" =>
          IF is_first_window
          THEN /\ mask' = mask
               /\ err' = "none"
               /\ current_window' = Render(mask)
          ELSE /\ mask' # mask
               /\ err' = "none"
               /\ current_window' = Render(mask')]_vars

\* C3 amended: with fade_on_first_call=True the first call flips at least
\* one element exactly when the initial mask is not done yet (and renders the
\* new mask unless it raises); on a done initial mask it raises RuntimeError
\* and flips nothing
C3_FirstCall ==
    [][ops = 0 /\ op' = "call" =>
          IF is_first_window
          THEN /\ mask' = mask
               /\ err' = "none"
               /\ current_window' = Render(mask)
          ELSE IF Done(fader_type, mask)
          THEN /\ mask' = mask
               /\ err' = "RuntimeError"
               /\ current_window' = current_window
          ELSE /\ mask' # mask
               /\ err' = "none" => current_window' = Render(mask')]_vars

\* reached: the first call of a fade_on_first_call fader whose mask was done
C3_Witness ==
    /\ ops = 1
    /\ op = "call"
    /\ err = "RuntimeError"
    /\ Len(mask) >= 1
    /\ Done(fader_type, mask)
    /\ current_window = NoWindow

\* the mask of a plain fader after adv advancing calls
PlainCountdown ==
    plain => /\ fader_type = "out"
             /\ max_steps = 1
             /\ SumSeq(mask) = IF adv < Len(mask) THEN Len(mask) - adv ELSE 0

\* C4 as stated: with max_steps = 1 every advancing call flips exactly one
\* element; a plain fade-out over n logical ties is all 0 after n advancing
\* calls and not before
C4_OneFlipAsStated ==
    [][/\ (AdvancingCall /\ max_steps = 1) =>
             Cardinality(Flipped(mask, mask')) = 1
       /\ PlainCountdown']_vars

\* C4 amended: with max_steps = 1 every advancing call made before the
\* process is done flips exactly one element, and one made when it is done
\* flips none and raises RuntimeError; a plain fade-out over n logical ties
\* is all 0 after n advancing calls and not before
C4_OneFlip ==
    [][/\ (AdvancingCall /\ max_steps = 1) =>
             IF Done(fader_type, mask)
             THEN mask' = mask /\ err' = "RuntimeError"
             ELSE Cardinality(Flipped(mask, mask')) = 1 /\ err' = "none"
       /\ PlainCountdown']_vars

\* reached: a plain fader over two logical ties after its second advancing call
C4_Witness ==
    /\ plain
    /\ op = "call"
    /\ err = "none"
    /\ Len(mask) = 2
    /\ adv = 2
    /\ SumSeq(mask) = 0

\* C5: __call__ on a done fader with no first window and no new mask pending
\* raises RuntimeError and keeps the mask
C5_CallWhenDone ==
    [][/\ op' = "call"
       /\ Done(fader_type, mask)
       /\ ~is_first_window
       /\ ~new_mask
       => /\ err' = "RuntimeError"
          /\ mask' = mask]_vars

\* reached: a failed call on an exhausted one-step fade-out
C5_Witness ==
    /\ op = "call"
    /\ err = "RuntimeError"
    /\ fader_type = "out"
    /\ max_steps = 1
    /\ Len(mask) = 2
    /\ SumSeq(mask) = 0

\* C6: __next__ never raises RuntimeError, and raises StopIteration exactly
\* when the process is done as it is entered
C6_NextNeverFails ==
    [][op' = "next" =>
          /\ err' # "RuntimeError"
          /\ err' = "StopIteration" <=> Done(fader_type, mask)]_vars

C8_ContentsResetsMask ==
    [][op' = "contents" /\ err' = "none" =>
          /\ Len(mask') = Cardinality({i \in DOMAIN contents' :
                                          IsTieHead(contents', i)})
          /\ \A i \in DOMAIN mask' :
                mask'[i] = IF fader_type' = "out" THEN 1 ELSE 0]_vars

\* reached: new contents given to a fade-in that has already rendered
C8_Witness ==
    /\ op = "contents"
    /\ err = "none"
    /\ fader_type = "in"
    /\ Len(mask) = 2
    /\ current_window # NoWindow

\* the duration of a sequence of leaves
Duration(w) == SumSeq([i \in DOMAIN w |-> w[i].d])

\* the leaf of w that covers quarter q
LeafAt(w, q) ==
    CHOOSE i \in DOMAIN w :
        /\ Duration(SubSeq(w, 1, i - 1)) < q
        /\ q <= Duration(SubSeq(w, 1, i))

\* the pitch heard in w during quarter q, 0 for silence
SoundAt(w, q) == IF w[LeafAt(w, q)].p > 0 THEN w[LeafAt(w, q)].p ELSE 0

\* w is c with the leaves of the logical ties masked by 0 replaced by rests
\* of the same written duration, and every other leaf as it was
LeafByLeaf(c, m, w) ==
    /\ Len(w) = Len(c)
    /\ \A i \in DOMAIN c :
          IF c[i].p > 0 /\ m[TieIndex(c, i)] = 0
          THEN w[i] = [p |-> 0, d |-> c[i].d, t |-> FALSE]
          ELSE w[i] = c[i]

\* w fills whole measures; while c lasts it sounds what c sounds where the
\* logical tie is masked by 1 and is silent elsewhere, and it is silent
\* afterwards; it holds as many pitched logical ties as the mask has 1s
SameTimeAxis(c, m, w) ==
    /\ Duration(w) % MeasureLen = 0
    /\ Duration(w) >= Duration(c)
    /\ Duration(w) < Duration(c) + MeasureLen
    /\ \A q \in 1..Duration(w) :
          SoundAt(w, q) =
             IF q <= Duration(c) /\ c[LeafAt(c, q)].p > 0
                                /\ m[TieIndex(c, LeafAt(c, q))] = 1
             THEN c[LeafAt(c, q)].p
             ELSE 0
    /\ WellFormed(w)
    /\ FaderLen(w) = Cardinality({k \in DOMAIN m : m[k] = 1})

\* C9 as stated: the window a call returns is contents with the leaves of
\* the logical ties masked by 0 replaced by rests of the same written
\* duration, and every other leaf kept
C9_WindowAsStated ==
    [][op' = "call" /\ err' = "none" =>
          LeafByLeaf(contents, mask', current_window')]_vars

\* C9 amended: that holds leaf by leaf when omit_all_time_signatures is
\* set; otherwise the window is that sequence written out again in whole
\* measures, which keeps what sounds at every moment but not the leaves
C9_Window ==
    [][op' = "call" /\ err' = "none" =>
          IF omit_all_time_signatures
          THEN LeafByLeaf(contents, mask', current_window')
          ELSE SameTimeAxis(contents, mask', current_window')]_vars

\* reached: a window with a silenced and a sounding logical tie whose leaves
\* are not those of contents
C9_Witness ==
    /\ op = "call"
    /\ err = "none"
    /\ ~omit_all_time_signatures
    /\ SumSeq(mask) = 1
    /\ Len(mask) = 2
    /\ ~LeafByLeaf(contents, mask, current_window)
    /\ SameTimeAxis(contents, mask, current_window)

\* C10: output_all on a fader just built with the default first-call
\* behaviour and mask returns with the process done, whatever max_steps is;
\* with max_steps = 1 over n logical ties it returns n + 1 windows
C10_OutputAllCompletes ==
    [][/\ ops = 0
       /\ is_first_window
       /\ mask = DefaultMask(fader_type, Len(mask))
       /\ op' = "output_all"
       => /\ err' = "none"
          /\ Done(fader_type, mask')
          /\ max_steps = 1 => nret' = Len(mask) + 1]_vars

\* --------------------------------------------------------------- Hocketer
Min(a, b) == IF a < b THEN a ELSE b

\* the quarter at which leaf i of a container starts
StartOf(leaves, i) == 1 + SumSeq([j \in 1..(i - 1) |-> leaves[j].d])

\* the voices for which logical tie t was selected by the last call
KeptIn(h, t) == {v \in DOMAIN h.voices : v \in h.selected[t]}

\* the voices that sound the pitch of leaf i of contents where it stands
HeardIn(h, i) ==
    {v \in DOMAIN h.voices :
        \A q \in StartOf(h.contents, i)..(StartOf(h.contents, i) + h.contents[i].d - 1) :
            SoundAt(h.voices[v], q) = h.contents[i].p}

\* the voices that are silent all through leaf i of contents
SilentIn(h, i) ==
    {v \in DOMAIN h.voices :
        \A q \in StartOf(h.contents, i)..(StartOf(h.contents, i) + h.contents[i].d - 1) :
            SoundAt(h.voices[v], q) = 0}

Returned(h, name) == h.op = name /\ h.err = "none"

\* C11: after every call made with force_k_voices = False and all weights
\* positive, each pitched logical tie of contents is kept in at least one
\* voice and in at most min(k, n_voices) voices, and is heard in just the
\* voices that keep it; with k = 1 it is kept in exactly one voice.
C11_KeptWithoutForce ==
    (/\ Returned(hocketer, "call")
     /\ ~hocketer.force_k_voices
     /\ \A v \in DOMAIN hocketer.weights : hocketer.weights[v] > 0)
    => \A i \in DOMAIN hocketer.contents :
          hocketer.contents[i].p > 0 =>
             LET kept == KeptIn(hocketer, LogicalTieIndex(hocketer.contents, i))
             IN  /\ HeardIn(hocketer, i) = kept
                 /\ Cardinality(kept) >= 1
                 /\ Cardinality(kept) <= Min(hocketer.k, hocketer.n_voices)
                 /\ hocketer.k = 1 => Cardinality(kept) = 1

C13_ForceKWithinVoices ==
    [][ /\ hocketer.built /\ hocketer.force_k_voices
            => hocketer.k <= hocketer.n_voices
        /\ hocketer'.built /\ hocketer'.force_k_voices
            => hocketer'.k <= hocketer'.n_voices
        /\ (hocketer'.op \in {"n_voices", "k", "force_k_voices"} /\ hocketer'.err # "none")
            => /\ hocketer'.err = "ValueError"
               /\ hocketer'.n_voices = hocketer.n_voices
               /\ hocketer'.k = hocketer.k
               /\ hocketer'.force_k_voices = hocketer.force_k_voices
      ]_hocketer

\* force_k_voices = True was refused because k exceeds n_voices
C13_Witness ==
    /\ hocketer.built
    /\ hocketer.op = "force_k_voices"
    /\ hocketer.err = "ValueError"
    /\ ~hocketer.force_k_voices
    /\ hocketer.k > hocketer.n_voices

C15_ConstructorValidates ==
    (hocketer.op = "init" /\ (hocketer.n_voices < 1 \/ hocketer.k < 1))
    => hocketer.err # "none"

\* -------------------------------------------------------- PitchRandomiser
\* the step is a call that returned after rewriting the pitches
ProcessingCall ==
    /\ Returned(randomiser', "call")
    /\ ~(randomiser.is_first_window /\ ~randomiser.processs_on_first_call)

\* window w has the leaves of container c, in their order, with their
\* kinds, written durations and ties
SameRhythm(c, w) ==
    /\ Len(w) = Len(c)
    /\ \A i \in DOMAIN c : /\ w[i].kind = c[i].kind
                           /\ w[i].d = c[i].d
                           /\ w[i].t = c[i].t

\* in window w the rests of c are as they were and the leaves of each
\* single-note logical tie of c all have one and the same pitch of the pool
RestsKeptNotesFromPool(c, pool, w) ==
    \A i \in DOMAIN c :
        /\ c[i].kind = "rest" => w[i] = c[i]
        /\ c[i].kind = "note" =>
              /\ \E p \in PoolSet(pool) : w[i].ps = {p}
              /\ c[i].t => w[i + 1].ps = w[i].ps

\* in window w each chord of c has as many different pitches of the pool as
\* it had note heads, or the whole pool when the pool is shorter than that,
\* and the leaves of a tied chord all have the same pitches
ChordsFromPool(c, pool, w) ==
    \A i \in DOMAIN c :
        c[i].kind = "chord" =>
           /\ IF Cardinality(c[i].ps) <= Len(pool)
              THEN /\ w[i].ps \subseteq PoolSet(pool)
                   /\ Cardinality(w[i].ps) = Cardinality(c[i].ps)
              ELSE w[i].ps = PoolSet(pool)
           /\ c[i].t => w[i + 1].ps = w[i].ps

\* C16: the window of every processing call has the leaves of contents in
\* their order with their written durations and ties, its rests are those
\* of contents, and all the leaves of each single-note logical tie carry
\* one pitch of the pool.
C16_RestsKeptNotesRedrawn ==
    [][ ProcessingCall =>
           /\ SameRhythm(randomiser.contents, randomiser'.current_window)
           /\ RestsKeptNotesFromPool(randomiser.contents, randomiser.pitches,
                                     randomiser'.current_window)
      ]_randomiser

\* a call gave a pitch of the pool to a note that stands next to a rest
C16_Witness ==
    /\ Returned(randomiser, "call")
    /\ \E i, j \in DOMAIN randomiser.contents :
          /\ randomiser.contents[i].kind = "rest"
          /\ randomiser.current_window[i].kind = "rest"
          /\ randomiser.contents[j].kind = "note"
          /\ randomiser.current_window[j].ps # randomiser.contents[j].ps
          /\ randomiser.current_window[j].ps \subseteq PoolSet(randomiser.pitches)

\* C17: in the window of every processing call a chord of m note heads has
\* m pairwise different pitches of the pool when m <= len(pitches) and the
\* whole pool when m > len(pitches), the same on every leaf of its logical
\* tie.
C17_ChordsRedrawn ==
    [][ ProcessingCall =>
           ChordsFromPool(randomiser.contents, randomiser.pitches,
                          randomiser'.current_window)
      ]_randomiser

\* a call gave the two pitches of the pool to a chord of two note heads
C17_Witness ==
    /\ Returned(randomiser, "call")
    /\ Len(randomiser.pitches) = 2
    /\ \E i \in DOMAIN randomiser.contents :
          /\ randomiser.contents[i].kind = "chord"
          /\ Cardinality(randomiser.contents[i].ps) = 2
          /\ Cardinality(randomiser.current_window[i].ps) = 2
          /\ randomiser.current_window[i].ps = PoolSet(randomiser.pitches)
          /\ randomiser.current_window[i].ps # randomiser.contents[i].ps

\* the weights are None or as many as the pitches
WeightsFitPitches(r) ==
    r.built => (~r.weights.given \/ Len(r.weights.list) = Len(r.pitches))

\* C18: an assignment of pitches of the same length as before leaves
\* weights as they were, one of a different length sets weights to None; in
\* every state weights is None or has the length of pitches.
C18_WeightsFollowPitches ==
    [][ /\ WeightsFitPitches(randomiser)
        /\ WeightsFitPitches(randomiser')
        /\ randomiser'.op = "pitches" =>
              IF Len(randomiser'.pitches) = Len(randomiser.pitches)
              THEN randomiser'.weights = randomiser.weights
              ELSE randomiser'.weights = NoWeights
      ]_randomiser

\* pitches were assigned and the list of weights given before is still there
C18_Witness ==
    /\ randomiser.built
    /\ randomiser.op = "pitches"
    /\ randomiser.weights.given
    /\ Len(randomiser.weights.list) >= 1

\* C19: a call that returns while processs_on_first_call is False and no
\* call has returned since construction or the last assignment of contents
\* leaves the window equal to contents; every other call that returns has
\* rewritten the pitches of contents from the pool (a call that raises
\* returns nothing and is not counted).
C19_FirstCall ==
    [][ Returned(randomiser', "call") =>
           IF randomiser.calls = 0 /\ ~randomiser.processs_on_first_call
           THEN randomiser'.current_window = randomiser.contents
           ELSE /\ SameRhythm(randomiser.contents, randomiser'.current_window)
                /\ \A i \in DOMAIN randomiser.contents :
                      randomiser.contents[i].kind # "rest" =>
                         randomiser'.current_window[i].ps \subseteq
                            PoolSet(randomiser.pitches)
      ]_randomiser

\* with processs_on_first_call = False the first call returned the note of
\* contents as it is although the pool holds other pitches only
C19_Witness ==
    /\ Returned(randomiser, "call")
    /\ ~randomiser.processs_on_first_call
    /\ randomiser.calls = 1
    /\ randomiser.current_window = randomiser.contents
    /\ Len(randomiser.pitches) >= 1
    /\ \E i \in DOMAIN randomiser.contents : randomiser.contents[i].kind = "note"

\* ------------------------------------------------------------ WindowLooper
\* C20: whenever step_size is positive, len(looper) returns the least
\* integer n with n * step_size >= the duration of contents, that is the
\* ceiling of the duration of contents divided by step_size, whatever
\* window_size and head_position are.
C20_LenIsCeiling ==
    [][ (looper'.op = "len" /\ looper.step_size > 0) =>
           /\ looper'.err = "none"
           /\ looper'.len * looper.step_size >= ContentsLength(looper.contents)
           /\ (looper'.len - 1) * looper.step_size < ContentsLength(looper.contents)
           /\ \A head \in DurationInputs, window \in WindowInputs :
                 LooperLen([looper EXCEPT !.head_position = head,
                                          !.window_size = window]).len = looper'.len
      ]_looper

\* len(looper) rounded up: the step does not divide the duration of
\* contents, and the head is not at the start
C20_Witness ==
    /\ looper.built
    /\ Returned(looper, "len")
    /\ looper.step_size > 1
    /\ looper.contents_length % looper.step_size # 0
    /\ looper.len >= 2
    /\ looper.head_position > 0


\* the looper was just called, through looper() or next(looper)
Called(l) == l.op \in {"call", "next"}

\* max_steps = 1, repetition_chance = 0, forward_bias = 1 and the first
\* call not processed
Steady(l) ==
    /\ l.max_steps = 1
    /\ l.repetition_chance = 0
    /\ l.forward_bias = 100
    /\ ~l.processs_on_first_call

\* a steady looper built with head_position = 0 and a positive step, all of
\* whose calls so far returned a window
WalkedFromStart(l) ==
    /\ l.built
    /\ Steady(l)
    /\ l.step_size > 0
    /\ l.err = "none"
    /\ l.head_position = (IF l.emitted = 0 THEN 0 ELSE (l.emitted - 1) * l.step_size)

\* the leaves of window are the notes of pitches ps, all of duration d
NotesOf(window, ps, d) ==
    /\ Len(window) = Len(ps)
    /\ \A i \in DOMAIN window :
          window[i].p = ps[i] /\ window[i].d = d /\ ~window[i].t

\* C21: a WindowLooper with fill_with_rests = False that walks steadily
\* from head_position = 0 returns a window from a call exactly when the
\* window starting at the (moved) head does not extend past the end of
\* contents, and is exhausted by that call otherwise; over c' d' e' f' with
\* a window of two quarters and a step of one the third call returns e' f'.
C21_DoneWhenWindowOverruns ==
    [][ (/\ WalkedFromStart(looper)
         /\ ~looper.fill_with_rests
         /\ Called(looper')) =>
           /\ looper'.err = "none" <=>
                 looper'.head_position + looper.window_size
                     <= looper.contents_length
           /\ (/\ looper.contents = Melody(4)
               /\ looper.window_size = 2 * UnitsPerQuarter
               /\ looper.step_size = UnitsPerQuarter
               /\ looper.emitted = 2) =>
                 NotesOf(looper'.window, <<3, 4>>, UnitsPerQuarter)
      ]_looper

\* the pitch sounding off eighths after the start of contents (0 for a
\* rest and for what lies past the end)
ContentsPitchAt(leaves, off) ==
    IF \E i \in DOMAIN leaves :
          LeafStart(leaves, i) <= off /\ off < LeafStop(leaves, i)
    THEN leaves[CHOOSE i \in DOMAIN leaves :
                    LeafStart(leaves, i) <= off /\ off < LeafStop(leaves, i)].p
    ELSE 0

\* the duration of the first n leaves of a window, and of the window
WindowUpTo(window, n) == SumSeq([j \in 1..n |-> window[j].d])

WindowDuration(window) == WindowUpTo(window, Len(window))

\* the pitch sounding off eighths after the start of a window
WindowPitchAt(window, off) ==
    window[CHOOSE i \in DOMAIN window :
              WindowUpTo(window, i - 1) <= off /\ off < WindowUpTo(window, i)].p

\* the window holds what contents holds from head on, and rests past its end
WindowShows(window, l, head) ==
    \A off \in 0..(l.window_size - 1) :
        WindowPitchAt(window, off) = ContentsPitchAt(l.contents, head + off)

\* C22: a WindowLooper with fill_with_rests = True that walks steadily from
\* head_position = 0 puts its head at 0, step, 2 * step, ... call after
\* call; a call returns a window exactly when its head is below the
\* duration of contents, the window lasts exactly window_size and shows
\* contents from the head on followed by rests, and the first call that
\* raises exhausted comes after exactly len(looper) windows; over
\* c' d' e' f' with a window of two quarters and a step of one the fourth
\* window is f' and a rest.
C22_OneWindowPerStep ==
    [][ (/\ WalkedFromStart(looper)
         /\ looper.fill_with_rests
         /\ Called(looper')) =>
           /\ looper'.head_position = looper.emitted * looper.step_size
           /\ looper'.err = "none" <=>
                 looper'.head_position < looper.contents_length
           /\ looper'.err = "none" =>
                 /\ looper'.emitted = looper.emitted + 1
                 /\ WindowDuration(looper'.window) = looper.window_size
                 /\ WindowShows(looper'.window, looper, looper'.head_position)
           /\ looper'.err # "none" =>
                 /\ looper'.emitted = looper.emitted
                 /\ looper.emitted = LooperLen(looper).len
           /\ (/\ looper.contents = Melody(4)
               /\ looper.window_size = 2 * UnitsPerQuarter
               /\ looper.step_size = UnitsPerQuarter
               /\ looper.emitted = 3) =>
                 looper'.window = << [p |-> 4, d |-> UnitsPerQuarter, t |-> FALSE],
                                     [p |-> 0, d |-> UnitsPerQuarter, t |-> FALSE] >>
      ]_looper

\* c' d' e' f' walked through by quarters with a window of two: the
\* fourth and last window, f' and a rest, has just been returned
C22_Witness ==
    /\ WalkedFromStart(looper)
    /\ looper.fill_with_rests
    /\ Called(looper)
    /\ looper.contents = Melody(4)
    /\ looper.window_size = 2 * UnitsPerQuarter
    /\ looper.step_size = UnitsPerQuarter
    /\ looper.emitted = 4
    /\ looper.emitted = LooperLen(looper).len
    /\ looper.window[Len(looper.window)].p = 0

\* 0 <= head_position < duration of contents
HeadInContents(l) ==
    /\ 0 <= l.head_position
    /\ l.head_position < l.contents_length

\* C23: an assignment to head_position either raises and leaves
\* head_position as it was, or returns with 0 <= head_position < duration of
\* contents (a value outside that range is never stored); and an
\* assignment to contents of a looper whose head was inside the old
\* contents leaves it inside the new contents.
C23_HeadStaysInContents ==
    [][ /\ looper'.op = "head_position" =>
              IF looper'.err = "none"
              THEN HeadInContents(looper')
              ELSE looper'.head_position = looper.head_position
        /\ (looper'.op = "contents" /\ HeadInContents(looper)) =>
              HeadInContents(looper')
      ]_looper

\* l and m differ at most in the fields named in fields, in the operation
\* last performed and in what it raised and returned
SameLooperBut(l, m, fields) ==
    \A f \in DOMAIN l \ (fields \cup {"op", "err", "window", "len"}) : l[f] = m[f]

\* C24: an assignment to window_size or to step_size changes neither
\* head_position nor the first-window flag, nor anything but the property
\* assigned (and nothing at all if it raises); the next window sliced then
\* lasts the new window_size and the next move of the head is by the new
\* step_size.
C24_SizesLeaveTheHead ==
    [][ /\ looper'.op \in {"window_size", "step_size"} =>
              /\ looper'.head_position = looper.head_position
              /\ looper'.is_first_window = looper.is_first_window
              /\ SameLooperBut(looper, looper', {looper'.op})
              /\ looper'.err # "none" => SameLooperBut(looper, looper', {})
              /\ HeadInContents(looper') =>
                    WindowDuration(SliceContents(looper')) = looper'.window_size
              /\ HeadsAfterMove([looper' EXCEPT !.is_first_window = FALSE])
                    = {looper'.head_position + looper'.step_size}
        /\ (Called(looper') /\ looper.op \in {"window_size", "step_size"}) =>
              /\ looper'.head_position =
                    IF looper.is_first_window /\ ~looper.processs_on_first_call
                    THEN looper.head_position
                    ELSE looper.head_position + looper.step_size
              /\ looper'.err = "none" =>
                    WindowDuration(looper'.window) = looper.window_size
      ]_looper

\* window_size or step_size was changed after the first call, head and
\* flag as the call left them
C24_Witness ==
    /\ looper.op \in {"window_size", "step_size"}
    /\ looper.err = "none"
    /\ ~looper.is_first_window
    /\ looper.head_position > 0
    /\ looper.emitted >= 2

\* C25: an assignment to step_size either raises and leaves step_size as
\* it was, or returns with step_size > 0 (zero and negative values are
\* never stored), so that len(looper) never divides by a step that is not
\* positive.
C25_StepSizePositive ==
    [][ /\ looper'.op = "step_size" =>
              IF looper'.err = "none"
              THEN looper'.step_size > 0
              ELSE looper'.step_size = looper.step_size
        /\ (looper'.op = "len" /\ looper.op = "step_size") =>
              looper.step_size > 0
      ]_looper

\* the looper was just built, or contents or head_position just assigned
JustPlaced(l) ==
    \/ l.op \in {"init", "contents"}
    \/ l.op = "head_position" /\ l.err = "none"

C28_ReadsChangeNothing ==
    [][ /\ op' = "current_window" =>
              /\ UNCHANGED <<config, mask, is_first_window, new_mask,
                             current_window>>
              /\ seen' = [of |-> "fader", value |-> current_window]
              /\ op = "current_window" => seen' = seen
              /\ CallOutcomes(Here)' = CallOutcomes(Here)
        /\ (hocketer # NoObject /\ hocketer'.op = "current_window") =>
              /\ \A f \in DOMAIN hocketer \ {"op", "err"} :
                    hocketer'[f] = hocketer[f]
              /\ seen' = [of |-> "hocketer", value |-> hocketer.voices]
              /\ hocketer.op = "current_window" => seen' = seen
              /\ HocketProcess(hocketer') = HocketProcess(hocketer)
        /\ (randomiser # NoObject /\ randomiser'.op = "current_window") =>
              /\ \A f \in DOMAIN randomiser \ {"op", "err"} :
                    randomiser'[f] = randomiser[f]
              /\ seen' = [of |-> "randomiser",
                          value |-> randomiser.current_window]
              /\ randomiser.op = "current_window" => seen' = seen
              /\ {[o EXCEPT !.op = "call"] : o \in Randomise(randomiser')}
                    = {[o EXCEPT !.op = "call"] : o \in Randomise(randomiser)}
      ]_allvars

\* a fader that has faded at least once, its window just read
C28_Witness ==
    /\ op = "current_window"
    /\ seen = [of |-> "fader", value |-> current_window]
    /\ current_window # NoWindow
    /\ ~is_first_window
    /\ adv >= 1

\* ------------------------------------------------------------ LoopByNotes
\* the first and the last leaf of logical tie number k (from 1) of leaves
FirstLeafOfTie(leaves, k) ==
    CHOOSE i \in DOMAIN leaves :
        IsLogicalTieHead(leaves, i) /\ LogicalTieIndex(leaves, i) = k

LastLeafOfTie(leaves, k) ==
    CHOOSE i \in DOMAIN leaves :
        /\ LogicalTieIndex(leaves, i) = k
        /\ i = Len(leaves) \/ LogicalTieIndex(leaves, i + 1) # k

\* the window just sliced holds the logical ties h .. min(h + w, n) - 1 of
\* contents and nothing else
HoldsTheTies(b) ==
    LET n    == Cardinality(LogicalTies(b.contents))
        h    == b.head_position
        last == Min(h + b.window_size, n)
    IN  IF h >= last
        THEN b.current_window = <<>>
        ELSE b.current_window =
                SubSeq(b.contents, FirstLeafOfTie(b.contents, h + 1),
                       LastLeafOfTie(b.contents, last))

\* the time signature ts is worth the duration of the window, in quarters
WorthTheWindow(ts, window) ==
    4 * ts[1] = ts[2] * SumSeq([k \in DOMAIN window |-> window[k].d])

ByElementsReturns ==
    /\ by_elements # NoObject
    /\ by_elements'.op = "call"
    /\ by_elements'.err = "none"
    /\ by_elements' # by_elements

\* C30 as stated: a window returned carries a leading time signature if and
\* only if omit_all_time_signatures is False and either
\* force_identical_time_signatures is True or the time signature worth the
\* window differs from the one worth the window returned just before it.
C30_SignatureUnlessAsPreceding ==
    [][ByElementsReturns =>
        (by_elements'.time_signature # NoTimeSignature
         <=> /\ ~by_elements.omit_all_time_signatures
             /\ \/ by_elements.force_identical_time_signatures
                \/ by_elements'.derived # by_elements.derived)]_allvars

\* C30 (amended): a window returned carries a leading time signature if and
\* only if omit_all_time_signatures is False and either
\* force_identical_time_signatures is True or the time signature worth the
\* window differs from the one worth the latest window returned while
\* omit_all_time_signatures was False (there being none at first); the
\* time signature it carries is the one it is worth.
C30_SignatureUnlessInEffect ==
    [][ByElementsReturns =>
        /\ by_elements'.time_signature # NoTimeSignature
           <=> /\ ~by_elements.omit_all_time_signatures
               /\ \/ by_elements.force_identical_time_signatures
                  \/ by_elements'.derived # by_elements.in_effect
        /\ by_elements'.time_signature
               \in {NoTimeSignature, by_elements'.derived}]_allvars

\* a window without time signature because it is worth the same as the
\* window before it, both returned with the two flags False
C30_Witness ==
    /\ by_elements # NoObject
    /\ by_elements.op = "call"
    /\ by_elements.err = "none"
    /\ ~by_elements.omit_all_time_signatures
    /\ ~by_elements.force_identical_time_signatures
    /\ by_elements.head_position = 1
    /\ by_elements.contents = Melody(4)
    /\ by_elements.window_size = 2
    /\ by_elements.last_time_signature = <<2, 4>>
    /\ by_elements.time_signature = NoTimeSignature

\* ----------------------------------------------------------- auxjad.mutate
\* C31: whichever of auxjad.mutate(x) and abjad.mutate(x) a method is
\* called from, with no keyword, the same function is called on the same
\* client with the same values of all its keywords.
C31_SameCallFromBoth ==
    (utility # NoObject /\ utility.of = "mutate") =>
        /\ utility.call =
              Forwarded(utility.method, utility.client, utility.given,
                        MethodDefaults(utility.method))
        /\ utility.call =
              Forwarded(utility.method, utility.client, utility.given,
                        ExtensionDefaults(utility.method))

\* ------------------------------------------------- auxjad.leaves_are_tieable
\* C32: leaves_are_tieable(leaf1, leaf2) returns True exactly when the two
\* leaves are notes of the same written pitch or chords of the same written
\* pitches, whatever their durations, and False otherwise (a rest among
\* them, or other pitches).
C32_TrueForSamePitches ==
    (/\ utility # NoObject
     /\ utility.of = "leaves_are_tieable"
     /\ Len(utility.args) = 2) =>
        LET leaf1 == utility.args[1].leaves[1]
            leaf2 == utility.args[2].leaves[1]
        IN  utility.result =
                IF /\ leaf1.kind = leaf2.kind
                   /\ leaf1.kind \in {"note", "chord"}
                   /\ leaf1.ps = leaf2.ps
                THEN "True"
                ELSE "False"

\* --------------------------------------------------- auxjad.repeat_container
\* function name is among the passes applied by the latest call
Applied(name) == \E i \in DOMAIN utility.passes : utility.passes[i] = name

\* C33: each of reposition_clefs, reposition_dynamics and reposition_slurs
\* of repeat_container switches its own pass and no other: a pass is
\* applied exactly when its own keyword is True.
C33_EachFlagItsPass ==
    (utility # NoObject /\ utility.of = "repeat_container") =>
        /\ Applied("reposition_clefs") <=> utility.reposition_clefs
        /\ Applied("reposition_dynamics") <=> utility.reposition_dynamics
        /\ Applied("reposition_slurs") <=> utility.reposition_slurs

\* -------------------------------------------------- Fader, short of elements
\* C34: a call of a fade-out that takes the removing branch and draws more
\* steps than elements of the mask are 1 sets all of them to 0 and then
\* raises RuntimeError (the draw is not clamped, and nothing is undone):
\* after the error the mask is all 0 and current_window is still the
\* window of before the call.  A draw that the mask can serve raises
\* nothing.
C34_ShortDrawEmptiesThenRaises ==
    [][(AdvancingCall /\ op' = "call" /\ fader_type = "out") =>
          /\ \A k \in DrawSteps :
                \A o \in RemoveElement(mask, k) :
                    /\ o.raised <=> k > SumSeq(mask)
                    /\ o.raised => \A i \in DOMAIN o.mask : o.mask[i] = 0
          /\ err' = "RuntimeError" =>
                /\ \A i \in DOMAIN mask' : mask'[i] = 0
                /\ current_window' = current_window
                /\ UNCHANGED <<is_first_window, new_mask>>
          /\ err' \in {"none", "RuntimeError"}]_vars

\* a fade-out that drew two steps with one element left: the call failed,
\* the mask is empty and the window still shows a note
C34_Witness ==
    /\ op = "call"
    /\ err = "RuntimeError"
    /\ fader_type = "out"
    /\ max_steps = 2
    /\ Len(mask) = 2
    /\ SumSeq(mask) = 0
    /\ current_window # NoWindow
    /\ \E i \in DOMAIN current_window : current_window[i].p > 0

\* ------------------------------------------------------- Fader, fader_type
\* mask m2 is mask m1 with some elements of value from turned into to
TurnedOnly(m1, m2, from, to) ==
    \A i \in Flipped(m1, m2) : m1[i] = from /\ m2[i] = to

\* C35: assigning fader_type changes neither the mask nor the new-mask
\* flag (nor the first-window flag, nor the window), and the call that
\* follows the assignment, on a fader past its first window with no new
\* mask pending (__call__, or __next__ when it does not stop), flips
\* elements of that same mask in the new direction:
\* between 1 and max_steps elements, from 0 to 1 after 'in' and from 1 to
\* 0 after 'out', or all that were left when it raises RuntimeError.
C35_FaderTypeKeepsMask ==
    [][/\ op' = "fader_type" =>
             UNCHANGED <<mask, new_mask, is_first_window, current_window>>
       /\ (/\ op = "fader_type"
           /\ err = "none"
           /\ op' \in {"call", "next"}
           /\ err' # "StopIteration"
           /\ ~is_first_window
           /\ ~new_mask) =>
             LET from == IF fader_type = "in" THEN 0 ELSE 1
             IN  /\ TurnedOnly(mask, mask', from, 1 - from)
                 /\ err' = "none" =>
                       /\ Cardinality(Flipped(mask, mask')) \in 1..max_steps
                       /\ current_window' = Render(mask')
                 /\ err' # "none" =>
                       /\ err' = "RuntimeError"
                       /\ \A i \in DOMAIN mask' : mask'[i] = 1 - from]_vars

\* a fader that has returned a window, half faded, just turned into a
\* fade-in
C35_Witness ==
    /\ op = "fader_type"
    /\ err = "none"
    /\ fader_type = "in"
    /\ ~is_first_window
    /\ ~new_mask
    /\ current_window # NoWindow
    /\ mask = <<0, 1>>

\* --------------------------------------------------- auxjad.reposition_slurs
\* C36: after reposition_slurs(container) with allow_slurs_under_rests
\* False has returned, on a container whose slurs are well nested, no rest
\* carries a StartSlur or a StopSlur and no leaf carries both.
C36_NoSlurOnRests ==
    (/\ utility # NoObject
     /\ utility.of = "reposition_slurs"
     /\ ~utility.allow_slurs_under_rests
     /\ ~utility.raised) =>
        \A i \in DOMAIN utility.leaves :
            /\ utility.leaves[i].rest =>
                  ~utility.leaves[i].start /\ ~utility.leaves[i].stop
            /\ ~(utility.leaves[i].start /\ utility.leaves[i].stop)

\* ------------------------------------------------ Hocketer, the draw loop
\* C37: with force_k_voices True, k <= n_voices and one weight per voice
\* (what the weights setter accepts), the draw loop of a call always comes
\* to an end under fair draws.
C37_ForcedDrawsEnd ==
    (/\ hocketer.pc = "drawing"
     /\ hocketer.k <= hocketer.n_voices
     /\ Len(hocketer.weights) = hocketer.n_voices)
    ~> (hocketer.pc = "idle")

\* -------------------------------------------- PitchRandomiser, the draw loop
\* C38: for a chord with no more note heads than the pool has pitches, the
\* retry-on-duplicate loop of a call always comes to an end under fair
\* draws, whatever pool and weights the setters accepted.
C38_ChordDrawsEnd ==
    (/\ randomiser.pc = "drawing"
     /\ Cardinality(randomiser.contents[1].ps) <= Len(randomiser.pitches))
    ~> (randomiser.pc = "idle")

\* ------------------------------------------- PitchRandomiser, Tenney selector
\* C39: after any assignments of pitches and weights, the weights in force
\* in the Tenney selector are the randomiser's own weights (both uniform, or
\* the same list).
C39_SelectorHasTheWeights ==
    WeightsInForce(randomiser.tenney, Len(randomiser.pitches))
        = WeightsInForce(randomiser.weights, Len(randomiser.pitches))

\* ------------------------------------------------------ Fader, mask ownership
\* C40: a change the caller makes to the list it passed to the mask setter,
\* or was given by the mask getter, leaves the fader's mask as it was, and
\* so in a state the setter's validation accepts.
C40_MaskIsPrivate ==
    [][op' = "caller" => (mask' = mask /\ MaskError(mask') = "none")]_allvars

====
